---------------------------- MODULE Spec2Model ----------------------------
(***************************************************************************)
(* State-machine model of the event-capture pipeline (aveliyath/i2c):      *)
(*   hooks.c   - the event queue (ring of MAX_EVENT_QUEUE slots)           *)
(*   buffer.c  - the staging buffer in front of the log writer             *)
(*   logger.c  - the log writer                                            *)
(*   capture.c - the capture controller and its own file sink              *)
(*   main.c    - the pipeline: hooks -> event_callback -> buffer -> logger *)
(* Every C function is an operator from the component's record (the C      *)
(* struct) and the call's inputs to the new record and the return value;   *)
(* an action applies one call.  What the environment decides (a hook that  *)
(* fails to install, a WriteFile that fails, a rename that fails) is an    *)
(* input of the action, drawn with \E.                                     *)
(***************************************************************************)
EXTENDS Integers, Sequences, FiniteSets, TLC

VARIABLES
    hooks,          \* hooks.c: static HookSystem hooks
    hooks_active,   \* hooks.c: static volatile bool hooks_active
    last_error,     \* hooks.c: static volatile DWORD last_error
    buffer,         \* buffer.c: static Buffer buffer
    logger,         \* logger.c: static Logger logger
    file_bytes,     \* the bytes physically in the logger's file on disk
    handed,         \* history: the bytes of the last write_to_log call
    enq_log,        \* history: events stored in the ring since it was last reset
    delivered,      \* history: events handed to the callback since that reset
    calls,          \* history: the number of counted calls made so far
    ret,            \* history: what the last call that returns a bool returned
    thr,            \* logger.c: where each thread inside write_to_log stands
    main_pc,        \* main.c: where main stands
    running,        \* main.c: static volatile int running
    capture,        \* capture.c: static CaptureSystem capture
    cfile,          \* the bytes physically in the capture log file on disk
    op,             \* history: the names of the last two capture calls made
    lk,             \* the critical sections: state, owning thread, recursion count
    stk,            \* the call stack of each thread of the lock-level model
    fmt,            \* capture.c: the event format_event_entry is given, and its text
    accepted,       \* history: the bytes add_to_buffer took since the last flush or clear
    wf,             \* history: the WriteFile calls of the last logical write, in order
    renamed,        \* the path the capture log file was last renamed to
    timer           \* capture.c: the tick count, capture.last_flush and what should_flush said

vars == <<hooks, hooks_active, last_error, buffer, logger, file_bytes, handed,
          enq_log, delivered, calls, ret, thr, main_pc, running, capture, cfile,
          op, lk, stk, fmt, accepted, wf, renamed, timer>>

---------------------------------------------------------------------------
(* Bounds of the model.  The ring has 1024 slots in hooks.h; the model     *)
(* keeps the code's index arithmetic and runs it on a smaller ring.        *)
MAX_EVENT_QUEUE == 3
\* A run makes at most MaxCount of the calls that advance a counter.
MaxCount == 3
\* buffer.h has BUFFER_SIZE 4096, BUFFER_MAX_EVENT_SIZE 1024 and logger.h has
\* LOG_BUFFER_SIZE 4096; the model keeps the code's comparisons and runs them
\* on a smaller staging buffer.
BUFFER_SIZE == 12
BUFFER_MAX_EVENT_SIZE == 4
LOG_BUFFER_SIZE == 12
\* The log file found on disk at start is MaxHeadroom or MinHeadroom bytes
\* below LOG_MAX_FILE_SIZE.
MaxHeadroom == 100
MinHeadroom == 40
\* capture.h has CAPTURE_BUFFER_SIZE 1024 * 1024; the model runs the code's
\* comparisons on a smaller staging buffer, with a max_file_size to match.
CAPTURE_BUFFER_SIZE == 6
SmallFileSize == 7
\* The calls a run of the buffer, of the log writer, of main and of the
\* capture controller makes at most.
MaxBufferCalls == 7
MaxLoggerCalls == 3
MaxMainCalls == 4
MaxCaptureCalls == 5

---------------------------------------------------------------------------
(* hooks.h                                                                 *)

HOOK_ERROR_NONE == 0
HOOK_ERROR_INIT_FAILED == 1
HOOK_ERROR_HOOK_FAILED == 2
HOOK_ERROR_INVALID == 5

KeyTypes == {"EVENT_KEY_PRESS", "EVENT_KEY_RELEASE"}
MouseTypes == {"EVENT_MOUSE_CLICK", "EVENT_MOUSE_MOVE", "EVENT_MOUSE_WHEEL"}

\* An Event: its type, the injected flag of its keyboard/mouse payload and
\* one payload word (vkCode, button flags or the window handle).
MkEvent(t, inj, c) == [type |-> t, injected |-> inj, code |-> c]

\* The all-zero Event of a slot never written (static HookSystem hooks = {0}).
ZeroEvent == MkEvent("EVENT_KEY_PRESS", FALSE, 0)

\* What the hook procedures hand to queue_event in the model.
EventInputs ==
    { MkEvent("EVENT_KEY_PRESS", FALSE, 65),
      MkEvent("EVENT_MOUSE_CLICK", TRUE, 1),
      MkEvent("EVENT_ERROR", FALSE, 0) }

\* The windows check_active_window can find in the foreground (0 is NULL).
Windows == {0, 1}

MkFilters(k, m, w, i) ==
    [capture_keyboard |-> k, capture_mouse |-> m,
     capture_window_changes |-> w, ignore_injected |-> i]

\* reset_hook_filters: everything captured, injected events kept.
DefaultFilters == MkFilters(TRUE, TRUE, TRUE, FALSE)

\* The all-zero HookFilters of the static initialiser.
ZeroFilters == MkFilters(FALSE, FALSE, FALSE, FALSE)

\* The filter settings set_hook_filters is called with in the model.
FilterInputs ==
    { MkFilters(TRUE, FALSE, TRUE, FALSE),
      MkFilters(FALSE, TRUE, FALSE, TRUE) }

\* The callbacks the program registers: main.c's event_callback and
\* capture.c's capture_event_callback.
Callbacks == {"event_callback", "capture_event_callback"}

ZeroStats ==
    [total_events |-> 0, dropped_events |-> 0,
     window_changes |-> 0, queue_overflows |-> 0]

ZeroHooks ==
    [keyboard |-> FALSE, mouse |-> FALSE, activeWindow |-> 0,
     callback |-> "NULL", filters |-> ZeroFilters,
     queue |-> [i \in 0..(MAX_EVENT_QUEUE - 1) |-> ZeroEvent],
     queue_head |-> 0, queue_tail |-> 0, stats |-> ZeroStats]

---------------------------------------------------------------------------
(* hooks.c: the queue                                                      *)

\* should_process_event without the tests of ignore_injected (lines 444-445,
\* 452-453).
should_process_event_noinjected(f, e) ==
    CASE e.type \in KeyTypes -> f.capture_keyboard
      [] e.type \in MouseTypes -> f.capture_mouse
      [] e.type = "EVENT_WINDOW_CHANGE" -> f.capture_window_changes
      [] e.type = "EVENT_ERROR" -> TRUE
      [] OTHER -> FALSE

should_process_event(f, e) ==
    CASE e.type \in KeyTypes ->
            IF ~f.capture_keyboard THEN FALSE
            ELSE IF f.ignore_injected /\ e.injected THEN FALSE
            ELSE TRUE
      [] e.type \in MouseTypes ->
            IF ~f.capture_mouse THEN FALSE
            ELSE IF f.ignore_injected /\ e.injected THEN FALSE
            ELSE TRUE
      [] e.type = "EVENT_WINDOW_CHANGE" -> f.capture_window_changes
      [] e.type = "EVENT_ERROR" -> TRUE
      [] OTHER -> FALSE

\* queue_event without the test for a full ring: the slot is written and
\* queue_tail moved whatever queue_head is.
queue_event_nofull(h, active, e) ==
    IF ~active THEN [hooks |-> h, ret |-> FALSE, stored |-> FALSE]
    ELSE IF ~should_process_event(h.filters, e)
    THEN [hooks |-> h, ret |-> TRUE, stored |-> FALSE]
    ELSE [hooks |-> [h EXCEPT !.queue[h.queue_tail] = e,
                              !.queue_tail = (h.queue_tail + 1) % MAX_EVENT_QUEUE,
                              !.stats.total_events = @ + 1],
          ret |-> TRUE, stored |-> TRUE]

\* queue_event writing the slot of a full ring as well.
queue_event_overwrite(h, active, e) ==
    IF ~active THEN [hooks |-> h, ret |-> FALSE, stored |-> FALSE]
    ELSE IF ~should_process_event(h.filters, e)
    THEN [hooks |-> h, ret |-> TRUE, stored |-> FALSE]
    ELSE LET next == (h.queue_tail + 1) % MAX_EVENT_QUEUE IN
         IF next # h.queue_head
         THEN [hooks |-> [h EXCEPT !.queue[h.queue_tail] = e,
                                   !.queue_tail = next,
                                   !.stats.total_events = @ + 1],
               ret |-> TRUE, stored |-> TRUE]
         ELSE [hooks |-> [h EXCEPT !.queue[h.queue_tail] = e,
                                   !.stats.queue_overflows = @ + 1,
                                   !.stats.dropped_events = @ + 1],
               ret |-> FALSE, stored |-> FALSE]

\* queue_event counting a refused event in queue_overflows alone.
queue_event_overflow_only(h, active, e) ==
    IF ~active THEN [hooks |-> h, ret |-> FALSE, stored |-> FALSE]
    ELSE IF ~should_process_event(h.filters, e)
    THEN [hooks |-> h, ret |-> TRUE, stored |-> FALSE]
    ELSE LET next == (h.queue_tail + 1) % MAX_EVENT_QUEUE IN
         IF next # h.queue_head
         THEN [hooks |-> [h EXCEPT !.queue[h.queue_tail] = e,
                                   !.queue_tail = next,
                                   !.stats.total_events = @ + 1],
               ret |-> TRUE, stored |-> TRUE]
         ELSE [hooks |-> [h EXCEPT !.stats.queue_overflows = @ + 1],
               ret |-> FALSE, stored |-> FALSE]

\* queue_event: [hooks, ret, stored].  stored tells the history variables
\* that the event went into a slot.
queue_event(h, active, e) ==
    IF ~active THEN [hooks |-> h, ret |-> FALSE, stored |-> FALSE]
    ELSE IF ~should_process_event(h.filters, e)
    THEN [hooks |-> h, ret |-> TRUE, stored |-> FALSE]
    ELSE LET next == (h.queue_tail + 1) % MAX_EVENT_QUEUE IN
         IF next # h.queue_head
         THEN [hooks |-> [h EXCEPT !.queue[h.queue_tail] = e,
                                   !.queue_tail = next,
                                   !.stats.total_events = @ + 1],
               ret |-> TRUE, stored |-> TRUE]
         ELSE [hooks |-> [h EXCEPT !.stats.queue_overflows = @ + 1,
                                   !.stats.dropped_events = @ + 1],
               ret |-> FALSE, stored |-> FALSE]

\* process_queued_event without the advance of queue_head after the callback.
process_queued_event_stay(h, active) ==
    IF ~active \/ h.callback = "NULL"
    THEN [hooks |-> h, ret |-> FALSE, called |-> FALSE, event |-> ZeroEvent]
    ELSE IF h.queue_head # h.queue_tail
    THEN [hooks |-> h, ret |-> TRUE, called |-> TRUE, event |-> h.queue[h.queue_head]]
    ELSE [hooks |-> h, ret |-> FALSE, called |-> FALSE, event |-> ZeroEvent]

\* process_queued_event reading the slot after the head.
process_queued_event_skip(h, active) ==
    IF ~active \/ h.callback = "NULL"
    THEN [hooks |-> h, ret |-> FALSE, called |-> FALSE, event |-> ZeroEvent]
    ELSE IF h.queue_head # h.queue_tail
    THEN [hooks |-> [h EXCEPT !.queue_head = (@ + 1) % MAX_EVENT_QUEUE],
          ret |-> TRUE, called |-> TRUE,
          event |-> h.queue[(h.queue_head + 1) % MAX_EVENT_QUEUE]]
    ELSE [hooks |-> h, ret |-> FALSE, called |-> FALSE, event |-> ZeroEvent]

\* process_queued_event, the queue's side of it: [hooks, ret, called, event].
\* called tells that hooks.callback ran, on event.
process_queued_event(h, active) ==
    IF ~active \/ h.callback = "NULL"
    THEN [hooks |-> h, ret |-> FALSE, called |-> FALSE, event |-> ZeroEvent]
    ELSE IF h.queue_head # h.queue_tail
    THEN [hooks |-> [h EXCEPT !.queue_head = (@ + 1) % MAX_EVENT_QUEUE],
          ret |-> TRUE, called |-> TRUE, event |-> h.queue[h.queue_head]]
    ELSE [hooks |-> h, ret |-> FALSE, called |-> FALSE, event |-> ZeroEvent]

get_queue_size(h) ==
    (h.queue_tail - h.queue_head + MAX_EVENT_QUEUE) % MAX_EVENT_QUEUE

is_queue_full(h) == ((h.queue_tail + 1) % MAX_EVENT_QUEUE) = h.queue_head

is_queue_empty(h) == h.queue_head = h.queue_tail

---------------------------------------------------------------------------
(* logger.h, logger.c                                                      *)

LOG_TIMESTAMP_SIZE == 32
LOG_MAX_FILE_SIZE == 100 * 1024 * 1024
LOG_MAX_WRITE_RETRIES == 3

LOG_ERROR_NONE == 0
LOG_ERROR_INIT == 1
LOG_ERROR_FILE == 2
LOG_ERROR_WRITE == 3
LOG_ERROR_INVALID == 4
LOG_ERROR_SIZE == 6

\* '\n'
NL == 10

\* strlen of what format_timestamp prints, "[%04d-%02d-%02d %02d:%02d:%02d] ".
TIMESTAMP_LEN == 22

\* The timestamp format_timestamp prints: '[', the date and the time (digits
\* and separators, here '0'), ']' and a space.
Timestamp ==
    [i \in 1..TIMESTAMP_LEN |->
        IF i = 1 THEN 91 ELSE IF i = TIMESTAMP_LEN - 1 THEN 93
        ELSE IF i = TIMESTAMP_LEN THEN 32 ELSE 48]

ZeroLogStats ==
    [total_writes |-> 0, failed_writes |-> 0, bytes_written |-> 0, retry_count |-> 0]

\* file_handle is "NULL" (the static zero), "OPEN" or "INVALID"
\* (INVALID_HANDLE_VALUE).
ZeroLogger ==
    [file_handle |-> "NULL", initialized |-> FALSE, last_error |-> 0,
     current_file_size |-> 0, stats |-> ZeroLogStats]

\* A call's (pointer, size) argument: null tells a null pointer, bytes the
\* size bytes it points to.
MkData(bytes) == [null |-> FALSE, bytes |-> bytes]
NullData == [null |-> TRUE, bytes |-> <<>>]

\* What WriteFile does to one write_with_retry call: the number of attempts
\* that fail before one succeeds (LOG_MAX_WRITE_RETRIES: none succeeds).
FailCounts == 0..LOG_MAX_WRITE_RETRIES
\* One count for each of the timestamp, the payload and the newline.
FailInputs == [1..3 -> FailCounts]

\* What the system does to one write_to_log call: time_ok tells whether
\* format_timestamp (localtime_s) succeeds, fails is the WriteFile behaviour.
IoInputs == [time_ok : BOOLEAN, fails : FailInputs]

\* The value of a call, bound once: with S == {f(x)}, The({e(r) : r \in S}) is
\* e at the value r of f(x).
The(S) == CHOOSE x \in S : TRUE

\* The four variables the buffer and the logger work on, as one record; wf
\* collects the WriteFile calls made on the way.
World(b, l, fb, hd) ==
    [buffer |-> b, logger |-> l, file_bytes |-> fb, handed |-> hd, wf |-> <<>>]

set_logger_error_internal(l, code) == [l EXCEPT !.last_error = code]

\* init_logger.  env: path_ok (a filepath shorter than LOG_MAX_PATH), dir_ok
\* (CreateDirectoryIfNotExists), open_ok (CreateFileA), size_ok (GetFileSizeEx).
init_logger(l, fb, env) ==
    IF ~env.path_ok
    THEN [logger |-> set_logger_error_internal(l, LOG_ERROR_INVALID), ret |-> FALSE]
    ELSE IF l.initialized
    THEN [logger |-> set_logger_error_internal(l, LOG_ERROR_INIT), ret |-> FALSE]
    ELSE IF ~env.dir_ok
    THEN [logger |-> set_logger_error_internal(l, LOG_ERROR_FILE), ret |-> FALSE]
    ELSE IF ~env.open_ok
    THEN [logger |-> [l EXCEPT !.file_handle = "INVALID", !.last_error = LOG_ERROR_FILE],
          ret |-> FALSE]
    ELSE IF ~env.size_ok
    THEN [logger |-> [l EXCEPT !.file_handle = "INVALID", !.last_error = LOG_ERROR_FILE],
          ret |-> FALSE]
    ELSE [logger |-> [l EXCEPT !.file_handle = "OPEN",
                               !.current_file_size = fb,
                               !.initialized = TRUE,
                               !.last_error = LOG_ERROR_NONE,
                               !.stats = ZeroLogStats],
          ret |-> TRUE]

cleanup_logger(l) ==
    IF ~l.initialized THEN l
    ELSE [l EXCEPT !.file_handle = "INVALID", !.initialized = FALSE]

\* validate_logger_state: [logger, ret].
validate_logger_state(l) ==
    LET valid == l.initialized /\ l.file_handle # "INVALID" IN
    [logger |-> IF valid THEN l ELSE set_logger_error_internal(l, LOG_ERROR_INIT),
     ret |-> valid]

\* check_file_size comparing the size so far, without the bytes to come.
check_file_size_sofar(l, additional_bytes) ==
    IF l.current_file_size > LOG_MAX_FILE_SIZE
    THEN [logger |-> set_logger_error_internal(l, LOG_ERROR_SIZE), ret |-> FALSE]
    ELSE [logger |-> l, ret |-> TRUE]

\* check_file_size: [logger, ret].
check_file_size(l, additional_bytes) ==
    IF l.current_file_size + additional_bytes > LOG_MAX_FILE_SIZE
    THEN [logger |-> set_logger_error_internal(l, LOG_ERROR_SIZE), ret |-> FALSE]
    ELSE [logger |-> l, ret |-> TRUE]

\* One WriteFile(handle, data, size, written, NULL) call and whether it
\* succeeded.
WriteFile(data, ok) == [data |-> data, ok |-> ok]

\* write_with_retry with the loop test retry <= LOG_MAX_WRITE_RETRIES: one more
\* attempt is made.
write_with_retry_more(w, data, f) ==
    LET size == Len(data)
        nfail == IF w.logger.file_handle = "OPEN" THEN f ELSE LOG_MAX_WRITE_RETRIES + 1
        ok == nfail <= LOG_MAX_WRITE_RETRIES
    IN  [w |-> [w EXCEPT !.logger.stats.retry_count = @ + nfail,
                         !.file_bytes = IF ok THEN @ + size ELSE @,
                         !.wf = @ \o [i \in 1..nfail |-> WriteFile(data, FALSE)]
                                  \o (IF ok THEN <<WriteFile(data, TRUE)>> ELSE <<>>)],
         ret |-> ok, written |-> IF ok THEN size ELSE 0]

\* write_with_retry(handle, data, size, written), the first f WriteFile calls
\* failing: [w, ret, written].  WriteFile on a handle that is not open fails
\* every time.
write_with_retry(w, data, f) ==
    LET size == Len(data)
        nfail == IF w.logger.file_handle = "OPEN" THEN f ELSE LOG_MAX_WRITE_RETRIES
        ok == nfail < LOG_MAX_WRITE_RETRIES
    IN  [w |-> [w EXCEPT !.logger.stats.retry_count = @ + nfail,
                         !.file_bytes = IF ok THEN @ + size ELSE @,
                         !.wf = @ \o [i \in 1..nfail |-> WriteFile(data, FALSE)]
                                  \o (IF ok THEN <<WriteFile(data, TRUE)>> ELSE <<>>)],
         ret |-> ok, written |-> IF ok THEN size ELSE 0]

\* WriteFailed that counts the write in total_writes as well.
WriteFailed_counted(w) ==
    [w |-> [w EXCEPT !.logger.last_error = LOG_ERROR_WRITE,
                     !.logger.stats.failed_writes = @ + 1,
                     !.logger.stats.total_writes = @ + 1],
     ret |-> FALSE]

\* The three failure exits of write_with_timestamp.
WriteFailed(w) ==
    [w |-> [w EXCEPT !.logger.last_error = LOG_ERROR_WRITE,
                     !.logger.stats.failed_writes = @ + 1],
     ret |-> FALSE]

\* Its success exit, total_bytes having been written.
WriteDone(w, total_bytes) ==
    [w |-> [w EXCEPT !.logger.stats.total_writes = @ + 1,
                     !.logger.stats.bytes_written = @ + total_bytes,
                     !.logger.current_file_size = @ + total_bytes],
     ret |-> TRUE]

\* write_with_timestamp without the test of the payload's last byte: the
\* newline is always written.
write_with_timestamp_newline(w, bytes, io) ==
    IF ~io.time_ok
    THEN [w |-> [w EXCEPT !.logger = set_logger_error_internal(@, LOG_ERROR_WRITE)],
          ret |-> FALSE]
    ELSE
    The({ IF ~r1.ret THEN WriteFailed(r1.w)
          ELSE The({ IF ~r2.ret THEN WriteFailed(r2.w)
                     ELSE The({ IF ~r3.ret THEN WriteFailed(r3.w)
                                ELSE WriteDone(r3.w, r1.written + r2.written + r3.written)
                                : r3 \in {write_with_retry(r2.w, <<NL>>, io.fails[3])} })
                     : r2 \in {write_with_retry(r1.w, bytes, io.fails[2])} })
          : r1 \in {write_with_retry(w, Timestamp, io.fails[1])} })

\* write_with_timestamp(data, size): [w, ret].
write_with_timestamp(w, bytes, io) ==
    IF ~io.time_ok
    THEN [w |-> [w EXCEPT !.logger = set_logger_error_internal(@, LOG_ERROR_WRITE)],
          ret |-> FALSE]
    ELSE
    The({ IF ~r1.ret THEN WriteFailed(r1.w)
          ELSE The({ IF ~r2.ret THEN WriteFailed(r2.w)
                     ELSE IF bytes[Len(bytes)] # NL
                     THEN The({ IF ~r3.ret THEN WriteFailed(r3.w)
                                ELSE WriteDone(r3.w, r1.written + r2.written + r3.written)
                                : r3 \in {write_with_retry(r2.w, <<NL>>, io.fails[3])} })
                     ELSE WriteDone(r2.w, r1.written + r2.written)
                     : r2 \in {write_with_retry(r1.w, bytes, io.fails[2])} })
          : r1 \in {write_with_retry(w, Timestamp, io.fails[1])} })

\* The argument check of write_to_log.
BadLogArgs(data) ==
    data.null \/ Len(data.bytes) = 0 \/ Len(data.bytes) > LOG_BUFFER_SIZE

\* write_to_log, run by one caller without another in between: [w, ret].
write_to_log(w, data, io) ==
    The({ IF BadLogArgs(data)
          THEN [w |-> [w0 EXCEPT !.logger = set_logger_error_internal(@, LOG_ERROR_INVALID)],
                ret |-> FALSE]
          ELSE The({ IF ~v.ret THEN [w |-> [w0 EXCEPT !.logger = v.logger], ret |-> FALSE]
                     ELSE The({ IF ~c.ret
                                THEN [w |-> [w0 EXCEPT !.logger = c.logger], ret |-> FALSE]
                                ELSE write_with_timestamp(w0, data.bytes, io)
                                : c \in {check_file_size(
                                             v.logger,
                                             Len(data.bytes) + LOG_TIMESTAMP_SIZE + 1)} })
                     : v \in {validate_logger_state(w0.logger)} })
          : w0 \in {[w EXCEPT !.handed = data.bytes]} })

---------------------------------------------------------------------------
(* buffer.h, buffer.c                                                      *)

BUFFER_ERROR_NONE == 0
BUFFER_ERROR_INIT == 1
BUFFER_ERROR_FULL == 2
BUFFER_ERROR_INVALID == 4
BUFFER_ERROR_FLUSH == 5
BUFFER_ERROR_MEMORY == 6

ZeroBufStats ==
    [total_flushes |-> 0, failed_flushes |-> 0, total_writes |-> 0, failed_writes |-> 0]

\* data is <<>> for a null pointer and the capacity bytes of the block otherwise.
ZeroBuffer ==
    [data |-> <<>>, size |-> 0, capacity |-> 0, initialized |-> FALSE,
     last_error |-> 0, stats |-> ZeroBufStats]

\* memset(data, 0, n)
Zeroed(n) == [i \in 1..n |-> 0]

\* The bytes staged: the first size bytes of data.
Staged(b) == SubSeq(b.data, 1, b.size)

set_buffer_error_internal(b, code) == [b EXCEPT !.last_error = code]

reset_buffer_stats_internal(b) == [b EXCEPT !.stats = ZeroBufStats]

\* validate_buffer_state: [buffer, ret].
validate_buffer_state(b) ==
    LET valid == b.initialized /\ b.data # <<>> IN
    [buffer |-> IF valid THEN b ELSE set_buffer_error_internal(b, BUFFER_ERROR_INIT),
     ret |-> valid]

\* init_buffer, malloc succeeding or not: [buffer, ret].
init_buffer(b, malloc_ok) ==
    IF b.initialized
    THEN [buffer |-> set_buffer_error_internal(b, BUFFER_ERROR_INIT), ret |-> FALSE]
    ELSE IF ~malloc_ok
    THEN [buffer |-> [b EXCEPT !.data = <<>>, !.last_error = BUFFER_ERROR_MEMORY],
          ret |-> FALSE]
    ELSE [buffer |-> [b EXCEPT !.data = Zeroed(BUFFER_SIZE),
                               !.capacity = BUFFER_SIZE,
                               !.size = 0,
                               !.initialized = TRUE,
                               !.last_error = BUFFER_ERROR_NONE,
                               !.stats = ZeroBufStats],
          ret |-> TRUE]

\* BUFFER_FLUSH_THRESHOLD is BUFFER_SIZE * 0.75: size >= 0.75 * BUFFER_SIZE.
should_flush_buffer(b) == 4 * b.size >= 3 * BUFFER_SIZE

\* force_flush_buffer emptying the buffer when the write fails as well.
force_flush_buffer_drop(w, io) ==
    The({ IF ~v.ret
          THEN [w |-> [w EXCEPT !.buffer = v.buffer], ret |-> FALSE, wrote |-> FALSE]
          ELSE IF w.buffer.size = 0 THEN [w |-> w, ret |-> FALSE, wrote |-> FALSE]
          ELSE The({ [w |-> [r.w EXCEPT !.buffer.size = 0,
                                        !.buffer.data = Zeroed(w.buffer.capacity),
                                        !.buffer.stats.failed_flushes =
                                            IF r.ret THEN @ ELSE @ + 1],
                      ret |-> r.ret, wrote |-> TRUE]
                     : r \in {write_to_log(
                                  [w EXCEPT !.buffer.stats.total_flushes = @ + 1],
                                  MkData(Staged(w.buffer)), io)} })
          : v \in {validate_buffer_state(w.buffer)} })

\* force_flush_buffer: [w, ret, wrote].  wrote tells that write_to_log was called.
force_flush_buffer(w, io) ==
    The({ IF ~v.ret
          THEN [w |-> [w EXCEPT !.buffer = v.buffer], ret |-> FALSE, wrote |-> FALSE]
          ELSE IF w.buffer.size = 0 THEN [w |-> w, ret |-> FALSE, wrote |-> FALSE]
          ELSE The({ IF r.ret
                     THEN [w |-> [r.w EXCEPT !.buffer.size = 0,
                                             !.buffer.data = Zeroed(w.buffer.capacity)],
                           ret |-> TRUE, wrote |-> TRUE]
                     ELSE [w |-> [r.w EXCEPT !.buffer.stats.failed_flushes = @ + 1,
                                             !.buffer.last_error = BUFFER_ERROR_FLUSH],
                           ret |-> FALSE, wrote |-> TRUE]
                     : r \in {write_to_log(
                                  [w EXCEPT !.buffer.stats.total_flushes = @ + 1],
                                  MkData(Staged(w.buffer)), io)} })
          : v \in {validate_buffer_state(w.buffer)} })

\* The argument check without the test data_size == 0.
BadBufferArgs_nozero(data) ==
    data.null \/ Len(data.bytes) > BUFFER_MAX_EVENT_SIZE

\* The argument check of add_to_buffer.
BadBufferArgs(data) ==
    data.null \/ Len(data.bytes) = 0 \/ Len(data.bytes) > BUFFER_MAX_EVENT_SIZE

\* CopyIn with the memcpy made at buffer.data instead of buffer.data +
\* buffer.size.
CopyIn_front(b, bytes) ==
    [b EXCEPT !.data = [i \in 1..Len(b.data) |->
                           IF i <= Len(bytes) THEN bytes[i] ELSE b.data[i]],
              !.size = @ + Len(bytes),
              !.stats.total_writes = @ + 1]

\* memcpy(buffer.data + buffer.size, event_data, data_size)
CopyIn(b, bytes) ==
    [b EXCEPT !.data = [i \in 1..Len(b.data) |->
                           IF i > b.size /\ i <= b.size + Len(bytes)
                           THEN bytes[i - b.size] ELSE b.data[i]],
              !.size = @ + Len(bytes),
              !.stats.total_writes = @ + 1]

\* AddFull without the count of the failed write.
AddFull_uncounted(b) ==
    [b EXCEPT !.last_error = BUFFER_ERROR_FULL]

\* The two places where add_to_buffer gives up for lack of room.
AddFull(b) ==
    [b EXCEPT !.last_error = BUFFER_ERROR_FULL, !.stats.failed_writes = @ + 1]

\* add_to_buffer after its flush: the check for room again, then the copy.
CopyOrFull(w, bytes, flushed) ==
    IF w.buffer.size + Len(bytes) <= w.buffer.capacity
    THEN [w |-> [w EXCEPT !.buffer = CopyIn(@, bytes)], ret |-> TRUE, flushed |-> flushed]
    ELSE [w |-> [w EXCEPT !.buffer = AddFull(@)], ret |-> FALSE, flushed |-> flushed]

\* add_to_buffer copying without a flush first.
add_to_buffer_noflush(w, data, io) ==
    IF BadBufferArgs(data)
    THEN [w |-> [w EXCEPT !.buffer = set_buffer_error_internal(@, BUFFER_ERROR_INVALID)],
          ret |-> FALSE, flushed |-> FALSE]
    ELSE IF ~validate_buffer_state(w.buffer).ret
    THEN [w |-> [w EXCEPT !.buffer = validate_buffer_state(@).buffer],
          ret |-> FALSE, flushed |-> FALSE]
    ELSE [w |-> [w EXCEPT !.buffer = CopyIn(@, data.bytes)], ret |-> TRUE,
          flushed |-> FALSE]

\* add_to_buffer: [w, ret, flushed].  flushed tells that force_flush_buffer was
\* called first.
add_to_buffer(w, data, io) ==
    IF BadBufferArgs(data)
    THEN [w |-> [w EXCEPT !.buffer = set_buffer_error_internal(@, BUFFER_ERROR_INVALID)],
          ret |-> FALSE, flushed |-> FALSE]
    ELSE The({ IF ~v.ret
               THEN [w |-> [w EXCEPT !.buffer = v.buffer], ret |-> FALSE, flushed |-> FALSE]
               ELSE IF w.buffer.size + Len(data.bytes) > w.buffer.capacity
               THEN The({ IF ~f.ret
                          THEN [w |-> [f.w EXCEPT !.buffer = AddFull(@)],
                                ret |-> FALSE, flushed |-> TRUE]
                          ELSE CopyOrFull(f.w, data.bytes, TRUE)
                          : f \in {force_flush_buffer(w, io)} })
               ELSE CopyOrFull(w, data.bytes, FALSE)
               : v \in {validate_buffer_state(w.buffer)} })

\* flush_buffer_if_needed: [w, ret].
flush_buffer_if_needed(w, io) ==
    The({ IF ~v.ret THEN [w |-> [w EXCEPT !.buffer = v.buffer], ret |-> FALSE]
          ELSE IF should_flush_buffer(w.buffer)
          THEN The({ [w |-> f.w, ret |-> f.ret] : f \in {force_flush_buffer(w, io)} })
          ELSE [w |-> w, ret |-> FALSE]
          : v \in {validate_buffer_state(w.buffer)} })

\* clear_buffer
clear_buffer(b) ==
    The({ IF ~v.ret THEN v.buffer
          ELSE reset_buffer_stats_internal(
                   [b EXCEPT !.size = 0, !.data = Zeroed(b.capacity)])
          : v \in {validate_buffer_state(b)} })

\* cleanup_buffer: the new w.
cleanup_buffer(w, io) ==
    LET f == IF w.buffer.size > 0 /\ w.buffer.data # <<>>
             THEN force_flush_buffer(w, io).w ELSE w
    IN  IF ~w.buffer.initialized THEN w
        ELSE [f EXCEPT !.buffer.data = <<>>,
                       !.buffer.size = 0,
                       !.buffer.capacity = 0,
                       !.buffer.initialized = FALSE]

check_buffer_health(b) ==
    validate_buffer_state(b).ret
    /\ b.size <= b.capacity /\ b.data # <<>> /\ b.initialized

---------------------------------------------------------------------------
(* main.c                                                                  *)

\* The line event_callback formats with snprintf: "Key Press: %lu\n",
\* "Mouse Click: (%ld, %ld)\n", "Window Change: %s\n".  The model keeps one
\* byte for the text before the value ('K', 'M', 'W'), one for the value and
\* the newline.
EventLine(e) ==
    CASE e.type = "EVENT_KEY_PRESS" -> <<75, e.code, NL>>
      [] e.type = "EVENT_MOUSE_CLICK" -> <<77, e.code, NL>>
      [] e.type = "EVENT_WINDOW_CHANGE" -> <<87, e.code, NL>>

\* event_callback: the new w.
event_callback(w, e, io) ==
    IF e.type \in {"EVENT_KEY_PRESS", "EVENT_MOUSE_CLICK", "EVENT_WINDOW_CHANGE"}
    THEN add_to_buffer(w, MkData(EventLine(e)), io).w
    ELSE w

---------------------------------------------------------------------------
(* capture.c: the callback                                                 *)

\* capture_event_callback: the return of line 52 belongs to no if, so every
\* call returns there and the body after it never runs.
capture_event_callback(w, e) == w

---------------------------------------------------------------------------
(* hooks.c: delivery and life cycle                                        *)

\* hooks.callback(event)
RunCallback(cb, w, e, io) ==
    CASE cb = "event_callback" -> event_callback(w, e, io)
      [] cb = "capture_event_callback" -> capture_event_callback(w, e)
      [] OTHER -> w

\* One process_queued_event call with the callback it makes:
\* [hooks, w, delivered, ret].
RunQueued(h, active, w, dl, io) ==
    The({ [hooks |-> r.hooks,
           w |-> IF r.called THEN RunCallback(h.callback, w, r.event, io) ELSE w,
           delivered |-> IF r.called THEN Append(dl, r.event) ELSE dl,
           ret |-> r.ret]
          : r \in {process_queued_event(h, active)} })

\* process_remaining_events: while (process_queued_event()) {}
RECURSIVE process_remaining_events(_, _, _, _, _)
process_remaining_events(h, active, w, dl, io) ==
    The({ IF r.ret
          THEN process_remaining_events(r.hooks, active, r.w, r.delivered, io)
          ELSE r
          : r \in {RunQueued(h, active, w, dl, io)} })

\* init_hooks.  env: kb_ok, mouse_ok (SetWindowsHookEx), verify_ok (SendInput).
\* [hooks, active, last_error, ret].  On a failure it calls cleanup_hooks,
\* which returns at once because hooks_active is still false.
init_hooks(h, active, err, cb, env) ==
    LET h1 == [h EXCEPT !.callback = cb,
                        !.filters = DefaultFilters,
                        !.stats = ZeroStats,
                        !.queue_head = 0,
                        !.queue_tail = 0,
                        !.keyboard = env.kb_ok]
        h2 == [h1 EXCEPT !.mouse = env.mouse_ok]
    IN  IF active \/ cb = "NULL"
        THEN [hooks |-> h, active |-> active, last_error |-> HOOK_ERROR_INVALID,
              ret |-> FALSE]
        ELSE IF ~env.kb_ok
        THEN [hooks |-> h1, active |-> FALSE, last_error |-> HOOK_ERROR_HOOK_FAILED,
              ret |-> FALSE]
        ELSE IF ~env.mouse_ok \/ ~env.verify_ok
        THEN [hooks |-> h2, active |-> FALSE, last_error |-> HOOK_ERROR_HOOK_FAILED,
              ret |-> FALSE]
        ELSE [hooks |-> [h2 EXCEPT !.activeWindow = 0], active |-> TRUE,
              last_error |-> err, ret |-> TRUE]

\* cleanup_hooks: [hooks, active, w, delivered].  hooks_active is cleared
\* before process_remaining_events runs.
cleanup_hooks(h, active, w, dl, io) ==
    IF ~active THEN [hooks |-> h, active |-> active, w |-> w, delivered |-> dl]
    ELSE The({ [hooks |-> [r.hooks EXCEPT !.keyboard = FALSE,
                                          !.mouse = FALSE,
                                          !.activeWindow = 0,
                                          !.callback = "NULL"],
                active |-> FALSE, w |-> r.w, delivered |-> r.delivered]
               : r \in {process_remaining_events(h, FALSE, w, dl, io)} })

\* check_active_window, fg being the foreground window: [hooks, ret, stored, event].
check_active_window(h, active, fg) ==
    LET e == MkEvent("EVENT_WINDOW_CHANGE", FALSE, fg)
        q == queue_event(h, active, e)
    IN  IF fg = 0 \/ fg = h.activeWindow
        THEN [hooks |-> h, stored |-> FALSE, event |-> e]
        ELSE [hooks |-> [q.hooks EXCEPT !.activeWindow = fg,
                                        !.stats.window_changes = @ + 1],
              stored |-> q.stored, event |-> e]

clear_event_queue(h) == [h EXCEPT !.queue_head = 0, !.queue_tail = 0]

set_hook_filters(h, f) == [h EXCEPT !.filters = f]

reset_hook_filters(h) == [h EXCEPT !.filters = DefaultFilters]

\* register_hook_callback: [hooks, ret].
register_hook_callback(h, cb) ==
    IF cb = "NULL" THEN [hooks |-> h, ret |-> FALSE]
    ELSE [hooks |-> [h EXCEPT !.callback = cb], ret |-> TRUE]

unregister_hook_callback(h, cb) ==
    IF h.callback = cb THEN [h EXCEPT !.callback = "NULL"] ELSE h

---------------------------------------------------------------------------
(* capture.h, capture.c                                                    *)

CAPTURE_FLUSH_INTERVAL == 1000
CAPTURE_MAX_FILE_SIZE == 10 * 1024 * 1024

CAPTURE_ERROR_NONE == 0
CAPTURE_ERROR_INIT == 1
CAPTURE_ERROR_FILE == 2
CAPTURE_ERROR_MEMORY == 3
CAPTURE_ERROR_HOOKS == 4
CAPTURE_ERROR_BUFFER == 5

\* A const CaptureConfig* argument: null tells a null pointer.  path_ok tells a log_path that is not empty and is shorter
\* than CAPTURE_MAX_PATH.
MkConfig(path_ok, mode, interval, max, rotate, buffered) ==
    [null |-> FALSE, path_ok |-> path_ok, mode |-> mode, flush_interval |-> interval,
     max_file_size |-> max, rotate_logs |-> rotate, encrypt_logs |-> FALSE,
     buffer_events |-> buffered]

ZeroConfig == MkConfig(FALSE, "CAPTURE_MODE_NORMAL", 0, 0, FALSE, FALSE)
NullConfig == [ZeroConfig EXCEPT !.null = TRUE]

\* The configuration init_capture sets when it is given none.
DefaultConfig ==
    MkConfig(TRUE, "CAPTURE_MODE_NORMAL", CAPTURE_FLUSH_INTERVAL,
             CAPTURE_MAX_FILE_SIZE, TRUE, TRUE)

ZeroCaptureStats ==
    [events_captured |-> 0, bytes_written |-> 0, files_rotated |-> 0,
     write_errors |-> 0, events_buffered |-> 0, buffer_overflows |-> 0]

\* log_file is "NULL" or "OPEN"; buffer_null tells a null capture.buffer and
\* staged is the first buffer_size bytes of the block.
ZeroCapture ==
    [config |-> ZeroConfig, stats |-> ZeroCaptureStats, log_file |-> "NULL",
     initialized |-> FALSE, active |-> FALSE, last_error |-> 0,
     buffer_null |-> TRUE, staged |-> <<>>, buffer_size |-> 0,
     buffer_capacity |-> 0]

set_capture_error(c, error) == [c EXCEPT !.last_error = error]

\* validate_config without the test of log_path (lines 473-476).
validate_config_nopath(config) ==
    /\ ~(config.buffer_events /\ config.max_file_size < CAPTURE_BUFFER_SIZE)
    /\ ~(config.flush_interval = 0 \/ config.max_file_size = 0)

\* validate_config (lines 466-484).
validate_config(config) ==
    /\ ~(config.buffer_events /\ config.max_file_size < CAPTURE_BUFFER_SIZE)
    /\ config.path_ok
    /\ ~(config.flush_interval = 0 \/ config.max_file_size = 0)

\* open_log_file, fopen "ab" succeeding or not: [c, ret].
open_log_file(c, open_ok) ==
    IF open_ok THEN [c |-> [c EXCEPT !.log_file = "OPEN"], ret |-> TRUE]
    ELSE [c |-> [c EXCEPT !.log_file = "NULL", !.last_error = CAPTURE_ERROR_FILE],
          ret |-> FALSE]

close_log_file(c) ==
    IF c.log_file # "NULL" THEN [c EXCEPT !.log_file = "NULL"] ELSE c

\* The digits of the d conversion of snprintf.
DecDigits == << "0", "1", "2", "3", "4", "5", "6", "7", "8", "9" >>

\* The digits of n in base 10, the most significant first; none for 0.
RECURSIVE DecOf(_)
DecOf(n) == IF n = 0 THEN <<>> ELSE DecOf(n \div 10) \o << DecDigits[(n % 10) + 1] >>

\* %0wd: the digits of n, with zeros in front up to a width of w.
Dec0(n, w) ==
    IF Len(DecOf(n)) >= w THEN DecOf(n)
    ELSE [i \in 1..(w - Len(DecOf(n))) |-> "0"] \o DecOf(n)

\* GetLocalTime: the SYSTEMTIME fields rotate_log_file prints.
MkTime(y, mo, d, h, mi, s) ==
    [wYear |-> y, wMonth |-> mo, wDay |-> d, wHour |-> h, wMinute |-> mi, wSecond |-> s]

LocalTimes == {MkTime(2024, 1, 5, 3, 4, 9), MkTime(1999, 12, 31, 23, 59, 59)}

\* "%04d%02d%02d_%02d%02d%02d" of lines 275-276.
rotation_timestamp(st) ==
    Dec0(st.wYear, 4) \o Dec0(st.wMonth, 2) \o Dec0(st.wDay, 2) \o << "_" >>
    \o Dec0(st.wHour, 2) \o Dec0(st.wMinute, 2) \o Dec0(st.wSecond, 2)

\* CAPTURE_LOG_DIR, and config.log_path of the configurations validate_config
\* accepts (CAPTURE_DEFAULT_LOG).
CAPTURE_LOG_DIR == << "l", "o", "g", "s" >>
LogPath == << "k", "e", "y", "l", "o", "g", ".", "t", "x", "t" >>

\* "%s/%s" of lines 281-282 and 247-248.
old_path == CAPTURE_LOG_DIR \o << "/" >> \o LogPath

\* "%s/%s.%s" of lines 288-289.
new_path(st) == CAPTURE_LOG_DIR \o << "/" >> \o LogPath \o << "." >> \o rotation_timestamp(st)

\* A DWORD has TickModulus values (2^32, scaled): GetTickCount counts the
\* milliseconds since the system started modulo it.
TickModulus == 16

\* The milliseconds the model lets pass at most.
MaxTick == 40

GetTickCount(ms) == ms % TickModulus

\* ms is the time since the system started, flushed_at its value when
\* last_flush was set; last_flush is capture.last_flush, mode and
\* flush_interval are those of capture.config, and asked and said tell that
\* should_flush was called and what it returned.
ZeroTimer ==
    [ms |-> 0, flushed_at |-> 0, last_flush |-> 0, mode |-> "CAPTURE_MODE_NORMAL",
     flush_interval |-> 1, asked |-> FALSE, said |-> FALSE]

\* update_flush_timer: capture.last_flush = GetTickCount().
update_flush_timer(tm) ==
    [tm EXCEPT !.last_flush = GetTickCount(tm.ms), !.flushed_at = tm.ms]

\* should_flush with the difference taken in the integers, not in a DWORD.
should_flush_signed(tm) ==
    IF tm.mode = "CAPTURE_MODE_DEBUG" THEN TRUE
    ELSE LET now == GetTickCount(tm.ms)
             elapsed == now - tm.last_flush
         IN  elapsed >= tm.flush_interval

\* should_flush (lines 453-459): DWORD elapsed = now - capture.last_flush.
should_flush(tm) ==
    IF tm.mode = "CAPTURE_MODE_DEBUG" THEN TRUE
    ELSE LET now == GetTickCount(tm.ms)
             elapsed == (now - tm.last_flush) % TickModulus
         IN  elapsed >= tm.flush_interval

\* rotate_log_file counting the rotation before it knows that rename
\* succeeded.
rotate_log_file_counts(c, f, env) ==
    IF ~c.config.rotate_logs \/ c.log_file = "NULL" THEN [c |-> c, f |-> f, ret |-> FALSE]
    ELSE IF env.rename_ok
    THEN The({ [c |-> o.c, f |-> 0, ret |-> o.ret]
               : o \in {open_log_file(
                            [close_log_file(c) EXCEPT !.stats.files_rotated = @ + 1],
                            env.open_ok)} })
    ELSE [c |-> [close_log_file(c) EXCEPT !.stats.files_rotated = @ + 1],
          f |-> f, ret |-> FALSE]

\* rotate_log_file: [c, f, ret].  env: rename_ok (rename), open_ok (fopen of the
\* new file).  After a rename the path names no file and fopen creates it.
rotate_log_file(c, f, env) ==
    IF ~c.config.rotate_logs \/ c.log_file = "NULL" THEN [c |-> c, f |-> f, ret |-> FALSE]
    ELSE IF env.rename_ok
    THEN The({ [c |-> o.c, f |-> 0, ret |-> o.ret]
               : o \in {open_log_file(
                            [close_log_file(c) EXCEPT !.stats.files_rotated = @ + 1],
                            env.open_ok)} })
    ELSE [c |-> close_log_file(c), f |-> f, ret |-> FALSE]

\* A key event as create_keyboard_event fills it: the type, vkCode, scanCode
\* and the four modifier flags of data.keyboard.
MkKey(t, vk, sc, alt, control, shift, win) ==
    [type |-> t, vkCode |-> vk, scanCode |-> sc,
     alt |-> alt, control |-> control, shift |-> shift, win |-> win]

\* The digits of the X conversion of snprintf.
HexDigits ==
    << "0", "1", "2", "3", "4", "5", "6", "7",
       "8", "9", "A", "B", "C", "D", "E", "F" >>

\* The digits of n in base 16, the most significant first; none for 0.
RECURSIVE HexOf(_)
HexOf(n) == IF n = 0 THEN <<>> ELSE HexOf(n \div 16) \o << HexDigits[(n % 16) + 1] >>

\* %04lX: the digits of n, with zeros in front up to a width of four.
Hex04(n) ==
    IF Len(HexOf(n)) >= 4 THEN HexOf(n)
    ELSE [i \in 1..(4 - Len(HexOf(n))) |-> "0"] \o HexOf(n)

\* The %s%s%s%s of the key line with the tags in the order ctrl, alt, shift,
\* win.
KeyTags_ctrlfirst(k) ==
    (IF k.control THEN << " ", "C", "T", "R", "L" >> ELSE <<>>)
    \o (IF k.alt THEN << " ", "A", "L", "T" >> ELSE <<>>)
    \o (IF k.shift THEN << " ", "S", "H", "I", "F", "T" >> ELSE <<>>)
    \o (IF k.win THEN << " ", "W", "I", "N" >> ELSE <<>>)

\* The %s%s%s%s of the key line (lines 333-336).
KeyTags(k) ==
    (IF k.alt THEN << " ", "A", "L", "T" >> ELSE <<>>)
    \o (IF k.control THEN << " ", "C", "T", "R", "L" >> ELSE <<>>)
    \o (IF k.shift THEN << " ", "S", "H", "I", "F", "T" >> ELSE <<>>)
    \o (IF k.win THEN << " ", "W", "I", "N" >> ELSE <<>>)

\* format_event_entry for a key event, character by character: the text of
\* "[%s] KEY %s VK:0x%04lX SC:0x%04lX%s%s%s%s\n" (lines 327-336), timestamp
\* being the text of lines 313-322.
format_event_entry_text(timestamp, k) ==
    << "[" >> \o timestamp \o << "]", " ", "K", "E", "Y", " " >>
    \o (IF k.type = "EVENT_KEY_PRESS" THEN << "D", "O", "W", "N" >> ELSE << "U", "P" >>)
    \o << " ", "V", "K", ":", "0", "x" >> \o Hex04(k.vkCode)
    \o << " ", "S", "C", ":", "0", "x" >> \o Hex04(k.scanCode)
    \o KeyTags(k)
    \o << "\n" >>

\* The virtual-key codes and the scan codes of the key events of the model;
\* KBDLLHOOKSTRUCT gets them from 16-bit fields.
VkCodes == {65, 13, 254}
ScanCodes == {30, 0, 65535}

KeyInputs ==
    { MkKey(t, vk, sc, a, c, s, w) :
        t \in KeyTypes, vk \in VkCodes, sc \in ScanCodes,
        a \in BOOLEAN, c \in BOOLEAN, s \in BOOLEAN, w \in BOOLEAN }

\* The timestamp of lines 313-317, and the empty one of line 321.
Timestamps ==
    { <<>>,
      << "2", "0", "2", "4", "-", "0", "1", "-", "3", "1", " ",
         "2", "3", ":", "5", "9", ":", "0", "7", ".", "0", "4", "2" >> }

\* Before format_event_entry was called.
NoFormat ==
    [key |-> MkKey("EVENT_KEY_PRESS", 0, 0, FALSE, FALSE, FALSE, FALSE),
     timestamp |-> <<>>, text |-> <<>>, done |-> FALSE]

\* format_event_entry: the line of an event ('\0' alone for a type it does not
\* know).  The model keeps one byte for the text before the values ('K', 'M',
\* 'W'), the values and the newline.
format_event_entry(e) ==
    CASE e.type \in KeyTypes -> <<75, e.code, NL>>
      [] e.type \in MouseTypes -> <<77, e.code, e.code, 0, NL>>
      [] e.type = "EVENT_WINDOW_CHANGE" -> <<87, e.code, 0, NL>>
      [] OTHER -> <<>>

\* write_event_to_file, fwrite writing all of the entry or not: [c, f, ret].
write_event_to_file(c, f, entry, wr_ok) ==
    IF entry.null \/ c.log_file = "NULL"
    THEN [c |-> set_capture_error(c, CAPTURE_ERROR_FILE), f |-> f, ret |-> FALSE]
    ELSE IF ~wr_ok
    THEN [c |-> [c EXCEPT !.stats.write_errors = @ + 1], f |-> f, ret |-> FALSE]
    ELSE [c |-> [c EXCEPT !.stats.bytes_written = @ + Len(entry.bytes)],
          f |-> f + Len(entry.bytes), ret |-> TRUE]

\* flush_buffer_to_file counting the staged events down to 0 when it has
\* written them.
flush_buffer_to_file_recount(c, f, wr_ok) ==
    IF c.buffer_null \/ c.buffer_size = 0 THEN [c |-> c, f |-> f, ret |-> TRUE]
    ELSE IF c.log_file = "NULL"
    THEN [c |-> set_capture_error(c, CAPTURE_ERROR_FILE), f |-> f, ret |-> FALSE]
    ELSE IF ~wr_ok
    THEN [c |-> [c EXCEPT !.last_error = CAPTURE_ERROR_FILE,
                          !.stats.write_errors = @ + 1],
          f |-> f, ret |-> FALSE]
    ELSE [c |-> [c EXCEPT !.stats.bytes_written = @ + c.buffer_size,
                          !.stats.events_buffered = 0,
                          !.buffer_size = 0,
                          !.staged = <<>>],
          f |-> f + c.buffer_size, ret |-> TRUE]

\* flush_buffer_to_file: [c, f, ret].
flush_buffer_to_file(c, f, wr_ok) ==
    IF c.buffer_null \/ c.buffer_size = 0 THEN [c |-> c, f |-> f, ret |-> TRUE]
    ELSE IF c.log_file = "NULL"
    THEN [c |-> set_capture_error(c, CAPTURE_ERROR_FILE), f |-> f, ret |-> FALSE]
    ELSE IF ~wr_ok
    THEN [c |-> [c EXCEPT !.last_error = CAPTURE_ERROR_FILE,
                          !.stats.write_errors = @ + 1],
          f |-> f, ret |-> FALSE]
    ELSE [c |-> [c EXCEPT !.stats.bytes_written = @ + c.buffer_size,
                          !.buffer_size = 0,
                          !.staged = <<>>],
          f |-> f + c.buffer_size, ret |-> TRUE]

\* buffer_event_entry copying the entry whatever its flush returned.
buffer_event_entry_anyway(c, f, entry, wr_ok) ==
    IF entry.null \/ c.buffer_null
    THEN [c |-> set_capture_error(c, CAPTURE_ERROR_BUFFER), f |-> f, ret |-> FALSE]
    ELSE The({ [c |-> [r.c EXCEPT !.staged = @ \o entry.bytes,
                                  !.buffer_size = @ + Len(entry.bytes)],
                f |-> r.f, ret |-> TRUE]
               : r \in {IF c.buffer_size + Len(entry.bytes) >= c.buffer_capacity
                        THEN flush_buffer_to_file(c, f, wr_ok)
                        ELSE [c |-> c, f |-> f, ret |-> TRUE]} })

\* buffer_event_entry: [c, f, ret].
buffer_event_entry(c, f, entry, wr_ok) ==
    IF entry.null \/ c.buffer_null
    THEN [c |-> set_capture_error(c, CAPTURE_ERROR_BUFFER), f |-> f, ret |-> FALSE]
    ELSE The({ IF ~r.ret THEN r
               ELSE [c |-> [r.c EXCEPT !.staged = @ \o entry.bytes,
                                       !.buffer_size = @ + Len(entry.bytes)],
                     f |-> r.f, ret |-> TRUE]
               : r \in {IF c.buffer_size + Len(entry.bytes) >= c.buffer_capacity
                        THEN flush_buffer_to_file(c, f, wr_ok)
                        ELSE [c |-> c, f |-> f, ret |-> TRUE]} })

\* should_rotate_log; ftell tells the size of the file, which is opened to append.
should_rotate_log(c, f) ==
    c.config.rotate_logs /\ c.log_file # "NULL" /\ f >= c.config.max_file_size

\* cleanup_capture_internal without the flush of lines 182-184.
cleanup_capture_internal_noflush(c, f, wr_ok) ==
    [c |-> [close_log_file(c) EXCEPT !.buffer_null = TRUE,
                                     !.staged = <<>>,
                                     !.initialized = FALSE,
                                     !.active = FALSE,
                                     !.buffer_size = 0,
                                     !.buffer_capacity = 0],
     f |-> f]

\* cleanup_capture_internal: [c, f].
cleanup_capture_internal(c, f, wr_ok) ==
    The({ [c |-> [close_log_file(r.c) EXCEPT !.buffer_null = TRUE,
                                             !.staged = <<>>,
                                             !.initialized = FALSE,
                                             !.active = FALSE,
                                             !.buffer_size = 0,
                                             !.buffer_capacity = 0],
           f |-> r.f]
          : r \in {IF ~c.buffer_null /\ c.buffer_size > 0
                   THEN flush_buffer_to_file(c, f, wr_ok)
                   ELSE [c |-> c, f |-> f, ret |-> TRUE]} })

\* init_capture.  env: lock_ok
\* (InitializeCriticalSectionAndSpinCount), malloc_ok, dir_ok
\* (create_log_directory), open_ok (fopen): [c, f, ret].
init_capture(c, f, config, env) ==
    IF c.initialized \/ ~env.lock_ok
    THEN [c |-> set_capture_error(c, CAPTURE_ERROR_INIT), f |-> f, ret |-> FALSE]
    ELSE IF ~config.null /\ ~validate_config(config)
    THEN [c |-> set_capture_error(c, CAPTURE_ERROR_INIT), f |-> f, ret |-> FALSE]
    ELSE The({ IF c1.config.buffer_events /\ ~env.malloc_ok
               THEN [c |-> [c1 EXCEPT !.buffer_capacity = CAPTURE_BUFFER_SIZE,
                                      !.buffer_null = TRUE,
                                      !.last_error = CAPTURE_ERROR_MEMORY],
                     f |-> f, ret |-> FALSE]
               ELSE The({ IF ~env.dir_ok
                          THEN The({ [c |-> set_capture_error(x.c, CAPTURE_ERROR_FILE),
                                      f |-> x.f, ret |-> FALSE]
                                     : x \in {cleanup_capture_internal(c2, f, TRUE)} })
                          ELSE The({ IF ~o.ret
                                     THEN The({ [c |-> set_capture_error(
                                                           x.c, CAPTURE_ERROR_FILE),
                                                 f |-> x.f, ret |-> FALSE]
                                                : x \in {cleanup_capture_internal(
                                                             o.c, f, TRUE)} })
                                     ELSE [c |-> [o.c EXCEPT
                                                      !.stats = ZeroCaptureStats,
                                                      !.initialized = TRUE,
                                                      !.last_error = CAPTURE_ERROR_NONE],
                                           f |-> f, ret |-> TRUE]
                                     : o \in {open_log_file(c2, env.open_ok)} })
                          : c2 \in {IF c1.config.buffer_events
                                    THEN [c1 EXCEPT
                                             !.buffer_capacity = CAPTURE_BUFFER_SIZE,
                                             !.buffer_null = FALSE,
                                             !.staged = <<>>,
                                             !.buffer_size = 0]
                                    ELSE c1} })
               : c1 \in {[c EXCEPT !.config = IF config.null THEN DefaultConfig
                                              ELSE config]} })

\* start_capture without the test of capture.initialized.
start_capture_uninit(c, h) ==
    IF c.active
    THEN [c |-> set_capture_error(c, CAPTURE_ERROR_INIT), hooks |-> h, ret |-> FALSE]
    ELSE The({ IF ~r.ret
               THEN [c |-> set_capture_error(c, CAPTURE_ERROR_HOOKS), hooks |-> r.hooks,
                     ret |-> FALSE]
               ELSE [c |-> [c EXCEPT !.active = TRUE], hooks |-> r.hooks, ret |-> TRUE]
               : r \in {register_hook_callback(h, "capture_event_callback")} })

\* start_capture: [c, hooks, ret].
start_capture(c, h) ==
    IF ~c.initialized \/ c.active
    THEN [c |-> set_capture_error(c, CAPTURE_ERROR_INIT), hooks |-> h, ret |-> FALSE]
    ELSE The({ IF ~r.ret
               THEN [c |-> set_capture_error(c, CAPTURE_ERROR_HOOKS), hooks |-> r.hooks,
                     ret |-> FALSE]
               ELSE [c |-> [c EXCEPT !.active = TRUE], hooks |-> r.hooks, ret |-> TRUE]
               : r \in {register_hook_callback(h, "capture_event_callback")} })

\* stop_capture without the flush of lines 232-234.
stop_capture_noflush(c, f, h, wr_ok) ==
    IF ~c.active THEN [c |-> c, f |-> f, hooks |-> h]
    ELSE [c |-> [c EXCEPT !.active = FALSE], f |-> f,
          hooks |-> unregister_hook_callback(h, "capture_event_callback")]

\* stop_capture without the test of line 225.
stop_capture_again(c, f, h, wr_ok) ==
    The({ [c |-> [r.c EXCEPT !.active = FALSE], f |-> r.f,
           hooks |-> unregister_hook_callback(h, "capture_event_callback")]
          : r \in {IF c.buffer_size > 0 THEN flush_buffer_to_file(c, f, wr_ok)
                   ELSE [c |-> c, f |-> f, ret |-> TRUE]} })

\* stop_capture: [c, f, hooks].
stop_capture(c, f, h, wr_ok) ==
    IF ~c.active THEN [c |-> c, f |-> f, hooks |-> h]
    ELSE The({ [c |-> [r.c EXCEPT !.active = FALSE], f |-> r.f,
                hooks |-> unregister_hook_callback(h, "capture_event_callback")]
               : r \in {IF c.buffer_size > 0 THEN flush_buffer_to_file(c, f, wr_ok)
                        ELSE [c |-> c, f |-> f, ret |-> TRUE]} })

\* cleanup_capture: [c, f, hooks].
cleanup_capture(c, f, h, wr_ok) ==
    IF ~c.initialized THEN [c |-> c, f |-> f, hooks |-> h]
    ELSE The({ The({ [c |-> x.c, f |-> x.f, hooks |-> s.hooks]
                     : x \in {cleanup_capture_internal(s.c, s.f, wr_ok)} })
               : s \in {stop_capture(c, f, h, wr_ok)} })

set_capture_config(c, config) ==
    IF config.null THEN c ELSE [c EXCEPT !.config = config]

\* flush_capture_buffer: [c, f, ret].
flush_capture_buffer(c, f, wr_ok) ==
    IF ~c.initialized THEN [c |-> c, f |-> f, ret |-> FALSE]
    ELSE flush_buffer_to_file(c, f, wr_ok)

---------------------------------------------------------------------------
(* The initial state: the static initialisers, and a log file on disk.     *)

\* The critical sections of the program: hooks.lock, the ring's queue_lock,
\* buffer.lock, logger.lock and capture.lock.
Locks == {"hooks.lock", "queue_lock", "buffer.lock", "logger.lock", "capture.lock"}

\* A CRITICAL_SECTION of a static struct before InitializeCriticalSection:
\* all zero, owned by no thread.
ZeroLock == [state |-> "zero", owner |-> 0, count |-> 0]

\* The threads that call write_to_log, and one that is not inside it.
Threads == {1, 2}
IdleThread == [pc |-> "idle", bytes |-> <<>>]

InitFileSizes == {LOG_MAX_FILE_SIZE - MaxHeadroom, LOG_MAX_FILE_SIZE - MinHeadroom}

Init ==
    /\ hooks = ZeroHooks
    /\ hooks_active = FALSE
    /\ last_error = HOOK_ERROR_NONE
    /\ buffer = ZeroBuffer
    /\ logger = ZeroLogger
    /\ file_bytes \in InitFileSizes
    /\ handed = <<>>
    /\ enq_log = <<>>
    /\ delivered = <<>>
    /\ calls = 0
    /\ ret = FALSE
    /\ thr = [t \in Threads |-> IdleThread]
    /\ main_pc = "init_logger"
    /\ running = TRUE
    /\ capture = ZeroCapture
    /\ cfile = 0
    /\ op = <<"", "">>
    /\ lk = [l \in Locks |-> ZeroLock]
    /\ stk = [t \in Threads |-> <<>>]
    /\ fmt = NoFormat
    /\ accepted = <<>>
    /\ wf = <<>>
    /\ renamed = <<>>
    /\ timer = ZeroTimer

TheWorld == World(buffer, logger, file_bytes, handed)

\* The buffer, the logger and the file become those of w.
SetWorld(w) ==
    /\ buffer' = w.buffer
    /\ logger' = w.logger
    /\ file_bytes' = w.file_bytes
    /\ handed' = w.handed

SameWorld == UNCHANGED <<buffer, logger, file_bytes, handed>>

SameHooks == UNCHANGED <<hooks, hooks_active, last_error, enq_log, delivered>>
SameThreads == UNCHANGED thr
SameMain == UNCHANGED <<main_pc, running>>
SameLocks == UNCHANGED <<lk, stk, fmt, accepted, wf, renamed, timer>>
SameCapture == UNCHANGED <<capture, cfile, op, lk, stk, fmt, accepted, wf, renamed, timer>>
SameRest == UNCHANGED <<thr, main_pc, running, capture, cfile, op, lk, stk, fmt, accepted, wf, renamed, timer>>

\* A counted call: enabled while the run has made fewer than MaxCount.
Counted == calls < MaxCount /\ calls' = calls + 1

---------------------------------------------------------------------------
(* Actions of the hook system                                              *)

HookEnvs == [kb_ok : BOOLEAN, mouse_ok : BOOLEAN, verify_ok : BOOLEAN]

InitHooks(cb, env) ==
    \E r \in {init_hooks(hooks, hooks_active, last_error, cb, env)} :
    /\ hooks' = r.hooks
    /\ hooks_active' = r.active
    /\ last_error' = r.last_error
    /\ enq_log' = IF hooks_active \/ cb = "NULL" THEN enq_log ELSE <<>>
    /\ delivered' = IF hooks_active \/ cb = "NULL" THEN delivered ELSE <<>>
    /\ ret' = r.ret
    /\ UNCHANGED calls
    /\ SameWorld
    /\ SameRest

CleanupHooks(io) ==
    \E r \in {cleanup_hooks(hooks, hooks_active, TheWorld, delivered, io)} :
    /\ hooks' = r.hooks
    /\ hooks_active' = r.active
    /\ delivered' = r.delivered
    /\ SetWorld(r.w)
    /\ SameRest
    /\ UNCHANGED ret
    /\ UNCHANGED <<last_error, enq_log, calls>>

\* keyboard_proc, mouse_proc: a hook procedure hands e to queue_event.
QueueEvent(e) ==
    \E r \in {queue_event(hooks, hooks_active, e)} :
    /\ hooks_active
    /\ Counted
    /\ hooks' = r.hooks
    /\ enq_log' = IF r.stored THEN Append(enq_log, e) ELSE enq_log
    /\ ret' = r.ret
    /\ UNCHANGED <<hooks_active, last_error, delivered>>
    /\ SameWorld
    /\ SameRest

\* process_events, its first part: check_active_window.
CheckActiveWindow(fg) ==
    \E r \in {check_active_window(hooks, hooks_active, fg)} :
    /\ hooks_active
    /\ Counted
    /\ hooks' = r.hooks
    /\ enq_log' = IF r.stored THEN Append(enq_log, r.event) ELSE enq_log
    /\ UNCHANGED ret
    /\ UNCHANGED <<hooks_active, last_error, delivered>>
    /\ SameWorld
    /\ SameRest

\* process_events, one turn of its loop: process_queued_event.
ProcessQueuedEvent(io) ==
    \E r \in {RunQueued(hooks, hooks_active, TheWorld, delivered, io)} :
    /\ hooks' = r.hooks
    /\ delivered' = r.delivered
    /\ SetWorld(r.w)
    /\ SameRest
    /\ ret' = r.ret
    /\ UNCHANGED <<hooks_active, last_error, enq_log, calls>>

ClearEventQueue ==
    /\ hooks' = clear_event_queue(hooks)
    /\ enq_log' = <<>>
    /\ delivered' = <<>>
    /\ UNCHANGED ret
    /\ UNCHANGED <<hooks_active, last_error, calls>>
    /\ SameWorld
    /\ SameRest

SetHookFilters(f) ==
    /\ hooks' = set_hook_filters(hooks, f)
    /\ UNCHANGED ret
    /\ UNCHANGED <<hooks_active, last_error, enq_log, delivered, calls>>
    /\ SameWorld
    /\ SameRest

ResetHookFilters ==
    /\ hooks' = reset_hook_filters(hooks)
    /\ UNCHANGED ret
    /\ UNCHANGED <<hooks_active, last_error, enq_log, delivered, calls>>
    /\ SameWorld
    /\ SameRest

RegisterHookCallback(cb) ==
    \E r \in {register_hook_callback(hooks, cb)} :
    /\ hooks' = r.hooks
    /\ ret' = r.ret
    /\ UNCHANGED <<hooks_active, last_error, enq_log, delivered, calls>>
    /\ SameWorld
    /\ SameRest

UnregisterHookCallback(cb) ==
    /\ hooks' = unregister_hook_callback(hooks, cb)
    /\ UNCHANGED ret
    /\ UNCHANGED <<hooks_active, last_error, enq_log, delivered, calls>>
    /\ SameWorld
    /\ SameRest

\* In the hook system's own specification no write reaches the log writer
\* (the buffer is never initialised), so one WriteFile behaviour is enough.
NoFails == [time_ok |-> TRUE, fails |-> [i \in 1..3 |-> 0]]

\* Every hook installs.
HooksInstall == [kb_ok |-> TRUE, mouse_ok |-> TRUE, verify_ok |-> TRUE]

NextHooks ==
    \/ InitHooks("event_callback", HooksInstall)
    \/ CleanupHooks(NoFails)
    \/ \E e \in EventInputs : QueueEvent(e)
    \/ \E fg \in Windows : CheckActiveWindow(fg)
    \/ ProcessQueuedEvent(NoFails)
    \/ ClearEventQueue
    \/ \E f \in FilterInputs : SetHookFilters(f)
    \/ ResetHookFilters
    \/ \E cb \in {"event_callback", "NULL"} : RegisterHookCallback(cb)
    \/ UnregisterHookCallback("event_callback")

SpecHooks == Init /\ [][NextHooks]_vars

---------------------------------------------------------------------------
(* Properties of the event queue                                           *)

\* The events in the ring, oldest first: the slots from head up to tail.
RingContents(h) ==
    [i \in 1..get_queue_size(h) |-> h.queue[(h.queue_head + i - 1) % MAX_EVENT_QUEUE]]

\* C1: the events handed to the callback are a prefix of the events stored
\* by queue_event, in the order they were stored, and the events not yet
\* handed over are the ring's contents from the head on; so once the ring is
\* drained the callback has received every stored event in enqueue order.
C1_Fifo ==
    /\ Len(delivered) <= Len(enq_log)
    /\ \A i \in 1..Len(delivered) : delivered[i] = enq_log[i]
    /\ delivered \o RingContents(hooks) = enq_log

\* Two different events were handed over in order after the tail had wrapped.
C1_Witness ==
    /\ Len(delivered) >= 2
    /\ delivered[1] # delivered[2]
    /\ hooks.queue_tail < hooks.queue_head

\* What C2 requires of a queue_event(e) step.
DropsOnly(e) ==
    /\ ret' = FALSE
    /\ hooks'.stats.dropped_events = hooks.stats.dropped_events + 1
    /\ hooks'.stats.queue_overflows = hooks.stats.queue_overflows + 1
    /\ hooks'.queue_head = hooks.queue_head
    /\ hooks'.queue_tail = hooks.queue_tail
    /\ hooks'.queue = hooks.queue
    /\ hooks'.stats.total_events = hooks.stats.total_events

\* C2 as stated: whenever the ring is full, queue_event returns false, the drop
\* counters go up by one and head, tail, the slots and total_events stay.
C2_Original ==
    [][\A e \in EventInputs :
          (QueueEvent(e) /\ is_queue_full(hooks)) => DropsOnly(e)]_vars

\* C2 as amended: the same, for an event that passes should_process_event.
C2_FullRingDrops ==
    [][\A e \in EventInputs :
          (QueueEvent(e) /\ is_queue_full(hooks)
             /\ should_process_event(hooks.filters, e)) => DropsOnly(e)]_vars

\* A full ring on which queue_event has just dropped an event.
C2_Witness ==
    /\ is_queue_full(hooks)
    /\ hooks.stats.dropped_events >= 1
    /\ hooks.stats.queue_overflows >= 1
    /\ ret = FALSE
    /\ get_queue_size(hooks) = MAX_EVENT_QUEUE - 1

\* C3: when cleanup_hooks is called with the hooks active, a callback
\* registered and events in the ring, every event stored in the ring has been
\* delivered to the callback when it returns.
C3_ShutdownDrain ==
    [][(CleanupHooks(NoFails) /\ hooks_active /\ hooks.callback # "NULL")
          => delivered' = enq_log]_vars

---------------------------------------------------------------------------
(* Actions of the staging buffer and of the log writer                     *)

\* Everything but the buffer, the logger, the file and the history of calls.
SameOthers ==
    UNCHANGED <<hooks, hooks_active, last_error, enq_log, delivered, thr,
                main_pc, running, capture, cfile, op, lk, stk, fmt, wf, renamed, timer>>

\* WriteFile and localtime_s behaviours: all well, no local time, the payload
\* never written (after the timestamp was).
SomeIo ==
    {NoFails,
     [NoFails EXCEPT !.time_ok = FALSE],
     [NoFails EXCEPT !.fails[2] = LOG_MAX_WRITE_RETRIES]}

\* init_logger with all well, and with CreateFileA failing.
LogOpens == [path_ok |-> TRUE, dir_ok |-> TRUE, open_ok |-> TRUE, size_ok |-> TRUE]
SomeLogEnvs == {LogOpens, [LogOpens EXCEPT !.open_ok = FALSE]}

\* Arguments of add_to_buffer: a null pointer, a size of zero, a line, bytes
\* without a newline and one byte more than BUFFER_MAX_EVENT_SIZE.
BufDataInputs ==
    {NullData, MkData(<<>>), MkData(<<75, 65, NL>>), MkData(<<77, 1, 1, 1>>),
     MkData(Zeroed(BUFFER_MAX_EVENT_SIZE + 1))}

BufferCounted == calls < MaxBufferCalls /\ calls' = calls + 1

\* Between the buffers b and c a flush was made by force_flush_buffer and the
\* writer took it: total_flushes is one more and failed_flushes is the same.
FlushedOk(b, c) ==
    /\ c.stats.total_flushes = b.stats.total_flushes + 1
    /\ c.stats.failed_flushes = b.stats.failed_flushes

InitLogger(env) ==
    \E r \in {init_logger(logger, file_bytes, env)} :
    /\ logger' = r.logger
    /\ ret' = r.ret
    /\ BufferCounted
    /\ UNCHANGED <<buffer, file_bytes, handed, accepted>>
    /\ SameOthers

CleanupLogger ==
    /\ logger' = cleanup_logger(logger)
    /\ BufferCounted
    /\ UNCHANGED <<buffer, file_bytes, handed, ret, accepted>>
    /\ SameOthers

InitBuffer(malloc_ok) ==
    \E r \in {init_buffer(buffer, malloc_ok)} :
    /\ buffer' = r.buffer
    /\ ret' = r.ret
    /\ accepted' = IF r.ret THEN <<>> ELSE accepted
    /\ BufferCounted
    /\ UNCHANGED <<logger, file_bytes, handed>>
    /\ SameOthers

CleanupBuffer(io) ==
    /\ SetWorld(cleanup_buffer(TheWorld, io))
    /\ accepted' = IF buffer.initialized THEN <<>> ELSE accepted
    /\ BufferCounted
    /\ UNCHANGED ret
    /\ SameOthers

AddToBuffer(data, io) ==
    \E r \in {add_to_buffer(TheWorld, data, io)} :
    /\ BufferCounted
    /\ SetWorld(r.w)
    /\ ret' = r.ret
    /\ accepted' = (IF FlushedOk(buffer, r.w.buffer) THEN <<>> ELSE accepted)
                    \o (IF r.ret THEN data.bytes ELSE <<>>)
    /\ SameOthers

FlushBufferIfNeeded(io) ==
    \E r \in {flush_buffer_if_needed(TheWorld, io)} :
    /\ BufferCounted
    /\ SetWorld(r.w)
    /\ ret' = r.ret
    /\ accepted' = IF r.ret THEN <<>> ELSE accepted
    /\ SameOthers

ForceFlushBuffer(io) ==
    \E r \in {force_flush_buffer(TheWorld, io)} :
    /\ BufferCounted
    /\ SetWorld(r.w)
    /\ ret' = r.ret
    /\ accepted' = IF r.ret THEN <<>> ELSE accepted
    /\ SameOthers

ClearBuffer ==
    /\ buffer' = clear_buffer(buffer)
    /\ accepted' = IF validate_buffer_state(buffer).ret THEN <<>> ELSE accepted
    /\ BufferCounted
    /\ UNCHANGED <<logger, file_bytes, handed, ret>>
    /\ SameOthers

NextBuffer ==
    \/ \E env \in SomeLogEnvs : InitLogger(env)
    \/ CleanupLogger
    \/ \E malloc_ok \in BOOLEAN : InitBuffer(malloc_ok)
    \/ \E io \in SomeIo : CleanupBuffer(io)
    \/ \E data \in BufDataInputs, io \in SomeIo : AddToBuffer(data, io)
    \/ \E io \in SomeIo : FlushBufferIfNeeded(io)
    \/ \E io \in SomeIo : ForceFlushBuffer(io)
    \/ ClearBuffer

SpecBuffer == Init /\ [][NextBuffer]_vars

\* C4: once init_buffer has succeeded, buffer.size never exceeds
\* buffer.capacity, and an add_to_buffer call whose bytes would not fit copies
\* them only after a flush has handed the buffer's content to the writer and
\* emptied the buffer.
C4_SizeWithinCapacity ==
    /\ [](buffer.initialized => buffer.size <= buffer.capacity)
    /\ [][\A data \in BufDataInputs, io \in SomeIo :
            (/\ AddToBuffer(data, io)
             /\ buffer.initialized
             /\ buffer.size + Len(data.bytes) > buffer.capacity
             /\ buffer'.stats.total_writes = buffer.stats.total_writes + 1)
            => /\ buffer'.stats.total_flushes = buffer.stats.total_flushes + 1
               /\ handed' = Staged(buffer)
               /\ buffer'.size = Len(data.bytes)
               /\ Staged(buffer') = data.bytes]_vars

\* An append that did not fit has flushed the full buffer and copied its bytes:
\* the calls so far are init_logger, init_buffer and the appends.
C4_Witness ==
    /\ buffer.initialized
    /\ ret
    /\ calls = buffer.stats.total_writes + 2
    /\ buffer.stats.total_flushes = 1
    /\ logger.stats.total_writes = 1
    /\ buffer.size > 0
    /\ Len(handed) + buffer.size > buffer.capacity

\* C5: a force_flush_buffer call whose write fails returns false, leaves
\* buffer.size and the buffered bytes as they were and adds 1 to
\* failed_flushes; every flush hands the writer the bytes buffered at that
\* moment, so the next flush hands it the same bytes again.
C5_FailedFlushKeeps ==
    [][\A io \in SomeIo :
         (ForceFlushBuffer(io) /\ buffer.initialized /\ buffer.size > 0)
         => /\ handed' = Staged(buffer)
            /\ (~ret' => /\ buffer'.size = buffer.size
                         /\ buffer'.data = buffer.data
                         /\ buffer'.stats.failed_flushes =
                                buffer.stats.failed_flushes + 1)]_vars

\* A flush has failed in the writer and the next one has written the bytes.
C5_Witness ==
    /\ buffer.stats.failed_flushes = 1
    /\ buffer.stats.total_flushes = 2
    /\ logger.stats.failed_writes = 1
    /\ logger.stats.total_writes = 1
    /\ buffer.size = 0
    /\ ret
    /\ Len(handed) > 0

---------------------------------------------------------------------------
(* The main pipeline (main.c)                                              *)


MainCounted == calls < MaxMainCalls /\ calls' = calls + 1

SameQueueHistory == UNCHANGED <<enq_log, delivered>>

\* create_directory_if_needed and init_logger, lines 63-73.  env.dir_ok tells
\* both directory creations.
MainInitLogger(env) ==
    \E r \in {init_logger(logger, file_bytes, env)} :
    /\ main_pc = "init_logger"
    /\ logger' = IF env.dir_ok THEN r.logger ELSE logger
    /\ ret' = IF env.dir_ok THEN r.ret ELSE ret
    /\ main_pc' = IF env.dir_ok /\ r.ret THEN "init_hooks" ELSE "exit"
    /\ UNCHANGED <<hooks, hooks_active, last_error, buffer, file_bytes, handed,
                   calls, thr, running>>
    /\ SameQueueHistory
    /\ SameCapture

\* init_hooks(event_callback), lines 78-83.
MainInitHooks(env) ==
    \E r \in {init_hooks(hooks, hooks_active, last_error, "event_callback", env)} :
    /\ main_pc = "init_hooks"
    /\ hooks' = r.hooks
    /\ hooks_active' = r.active
    /\ last_error' = r.last_error
    /\ ret' = r.ret
    /\ logger' = IF r.ret THEN logger ELSE cleanup_logger(logger)
    /\ main_pc' = IF r.ret THEN "init_buffer" ELSE "exit"
    /\ UNCHANGED <<buffer, file_bytes, handed, calls, thr, running>>
    /\ SameQueueHistory
    /\ SameCapture

\* init_buffer, lines 88-93; on failure cleanup_hooks, then cleanup_logger.
MainInitBuffer(malloc_ok) ==
    \E r \in {init_buffer(buffer, malloc_ok)} :
    \E c \in {cleanup_hooks(hooks, hooks_active, World(r.buffer, logger, file_bytes, handed),
                            delivered, NoFails)} :
    /\ main_pc = "init_buffer"
    /\ ret' = r.ret
    /\ IF r.ret
       THEN /\ buffer' = r.buffer
            /\ main_pc' = "loop"
            /\ UNCHANGED <<hooks, hooks_active, logger, file_bytes, handed, delivered>>
       ELSE /\ hooks' = c.hooks
            /\ hooks_active' = c.active
            /\ delivered' = c.delivered
            /\ buffer' = c.w.buffer
            /\ logger' = cleanup_logger(c.w.logger)
            /\ file_bytes' = c.w.file_bytes
            /\ handed' = c.w.handed
            /\ main_pc' = "exit"
    /\ UNCHANGED <<last_error, enq_log, calls, thr, running>>
    /\ SameCapture

\* while (running), process_events up to check_active_window (lines 106-109,
\* hooks.c 364-373); with the hooks not active process_events returns at once.
MainProcessEvents(fg) ==
    \E r \in {check_active_window(hooks, hooks_active, fg)} :
    /\ main_pc = "loop"
    /\ running
    /\ hooks' = IF hooks_active THEN r.hooks ELSE hooks
    /\ enq_log' = IF hooks_active /\ r.stored THEN Append(enq_log, r.event) ELSE enq_log
    /\ main_pc' = IF hooks_active THEN "pump" ELSE "loop"
    /\ UNCHANGED <<hooks_active, last_error, delivered, calls, ret, thr, running>>
    /\ SameWorld
    /\ SameCapture

\* The PeekMessage loop of process_events (hooks.c 376-379): the system calls
\* keyboard_proc and mouse_proc on this thread while it takes its messages.
MainPump(e) ==
    \E r \in {queue_event(hooks, hooks_active, e)} :
    /\ main_pc = "pump"
    /\ MainCounted
    /\ hooks' = r.hooks
    /\ enq_log' = IF r.stored THEN Append(enq_log, e) ELSE enq_log
    /\ ret' = r.ret
    /\ UNCHANGED <<hooks_active, last_error, delivered, thr, main_pc, running>>
    /\ SameWorld
    /\ SameCapture

MainPumpDone ==
    /\ main_pc = "pump"
    /\ main_pc' = "drain"
    /\ UNCHANGED <<hooks, hooks_active, last_error, enq_log, delivered, calls, ret,
                   thr, running>>
    /\ SameWorld
    /\ SameCapture

\* while (process_queued_event()) of process_events (hooks.c 381-383), one turn.
MainDrain(io) ==
    \E r \in {RunQueued(hooks, hooks_active, TheWorld, delivered, io)} :
    /\ main_pc = "drain"
    /\ hooks' = r.hooks
    /\ delivered' = r.delivered
    /\ SetWorld(r.w)
    /\ ret' = r.ret
    /\ main_pc' = IF r.ret THEN "drain" ELSE "loop"
    /\ UNCHANGED <<hooks_active, last_error, enq_log, calls, thr, running>>
    /\ SameCapture

\* The loop ends: running is 0.
MainLoopEnds ==
    /\ main_pc = "loop"
    /\ ~running
    /\ main_pc' = "cleanup_logger"
    /\ UNCHANGED <<hooks, hooks_active, last_error, enq_log, delivered, calls, ret,
                   thr, running>>
    /\ SameWorld
    /\ SameCapture

MainCleanupLogger ==
    /\ main_pc = "cleanup_logger"
    /\ logger' = cleanup_logger(logger)
    /\ main_pc' = "cleanup_buffer"
    /\ UNCHANGED <<hooks, hooks_active, last_error, enq_log, delivered, calls, ret,
                   thr, running, buffer, file_bytes, handed>>
    /\ SameCapture

MainCleanupBuffer(io) ==
    /\ main_pc = "cleanup_buffer"
    /\ SetWorld(cleanup_buffer(TheWorld, io))
    /\ main_pc' = "cleanup_hooks"
    /\ UNCHANGED <<hooks, hooks_active, last_error, enq_log, delivered, calls, ret,
                   thr, running>>
    /\ SameCapture

MainCleanupHooks(io) ==
    \E r \in {cleanup_hooks(hooks, hooks_active, TheWorld, delivered, io)} :
    /\ main_pc = "cleanup_hooks"
    /\ hooks' = r.hooks
    /\ hooks_active' = r.active
    /\ delivered' = r.delivered
    /\ SetWorld(r.w)
    /\ main_pc' = "exit"
    /\ UNCHANGED <<last_error, enq_log, calls, ret, thr, running>>
    /\ SameCapture

\* cleanup_handler, on SIGINT or SIGTERM: force_flush_buffer, then running = 0.
CleanupHandler(io) ==
    /\ main_pc # "exit"
    /\ running
    /\ SetWorld(force_flush_buffer(TheWorld, io).w)
    /\ running' = FALSE
    /\ UNCHANGED <<hooks, hooks_active, last_error, enq_log, delivered, calls, ret,
                   thr, main_pc>>
    /\ SameCapture

NextMain ==
    \/ \E env \in SomeLogEnvs : MainInitLogger(env)
    \/ \E env \in {HooksInstall, [HooksInstall EXCEPT !.mouse_ok = FALSE]} :
           MainInitHooks(env)
    \/ \E malloc_ok \in BOOLEAN : MainInitBuffer(malloc_ok)
    \/ \E fg \in Windows : MainProcessEvents(fg)
    \/ \E e \in EventInputs : MainPump(e)
    \/ MainPumpDone
    \/ \E io \in SomeIo : MainDrain(io)
    \/ MainLoopEnds
    \/ MainCleanupLogger
    \/ \E io \in SomeIo : MainCleanupBuffer(io)
    \/ \E io \in SomeIo : MainCleanupHooks(io)
    \/ \E io \in SomeIo : CleanupHandler(io)

SpecMain == Init /\ [][NextMain]_vars

\* C6: in the running pipeline, an append made while buffer.size is at least
\* 0.75 * capacity is preceded by a flush, and that flush hands the writer
\* exactly the bytes buffered before it.
C6_AutoFlush ==
    [][\A io \in SomeIo :
         (/\ MainDrain(io)
          /\ buffer.initialized
          /\ should_flush_buffer(buffer)
          /\ buffer'.stats.total_writes = buffer.stats.total_writes + 1)
         => /\ buffer'.stats.total_flushes = buffer.stats.total_flushes + 1
            /\ handed' = Staged(buffer)]_vars

---------------------------------------------------------------------------
(* The log writer with concurrent callers (logger.c)                       *)

LoggerCounted == calls < MaxLoggerCalls /\ calls' = calls + 1

\* Everything the log writer's calls leave alone.
SameButLogger ==
    UNCHANGED <<hooks, hooks_active, last_error, enq_log, delivered, buffer,
                main_pc, running, capture, cfile, op, lk, stk, fmt, accepted, wf, renamed, timer>>

\* Arguments of write_to_log: a null pointer, a line, bytes without a newline,
\* LOG_BUFFER_SIZE bytes and one byte more.
WtlDataInputs ==
    {NullData, MkData(<<75, 65, NL>>), MkData(<<75, 75, 75, 75, 75, 75, 75>>),
     MkData(Zeroed(LOG_BUFFER_SIZE)), MkData(Zeroed(LOG_BUFFER_SIZE + 1))}

\* init_logger on a log file that is within the cap.
OpenLogger(env) ==
    /\ file_bytes <= LOG_MAX_FILE_SIZE
    /\ \E r \in {init_logger(logger, file_bytes, env)} :
       /\ logger' = r.logger
       /\ ret' = r.ret
    /\ UNCHANGED <<file_bytes, handed, calls, thr>>
    /\ SameButLogger

CloseLogger ==
    /\ logger' = cleanup_logger(logger)
    /\ UNCHANGED <<file_bytes, handed, calls, ret, thr>>
    /\ SameButLogger

\* write_to_log, lines 138-143: thread t calls it and its arguments are checked.
WtlEnter(t, data) ==
    /\ thr[t].pc = "idle"
    /\ LoggerCounted
    /\ handed' = data.bytes
    /\ IF BadLogArgs(data)
       THEN /\ logger' = set_logger_error_internal(logger, LOG_ERROR_INVALID)
            /\ ret' = FALSE
            /\ thr' = thr
       ELSE /\ thr' = [thr EXCEPT ![t] = [pc |-> "validate", bytes |-> data.bytes]]
            /\ UNCHANGED <<logger, ret>>
    /\ UNCHANGED file_bytes
    /\ SameButLogger

\* lines 145-147: validate_logger_state, inside logger.lock.
WtlValidate(t) ==
    /\ thr[t].pc = "validate"
    /\ \E v \in {validate_logger_state(logger)} :
       /\ logger' = v.logger
       /\ IF v.ret
          THEN thr' = [thr EXCEPT ![t].pc = "check"] /\ UNCHANGED ret
          ELSE thr' = [thr EXCEPT ![t] = IdleThread] /\ ret' = FALSE
    /\ UNCHANGED <<file_bytes, handed, calls>>
    /\ SameButLogger

\* lines 149-151: check_file_size, outside logger.lock.
WtlCheck(t) ==
    /\ thr[t].pc = "check"
    /\ \E c \in {check_file_size(logger, Len(thr[t].bytes) + LOG_TIMESTAMP_SIZE + 1)} :
       /\ logger' = c.logger
       /\ IF c.ret
          THEN thr' = [thr EXCEPT ![t].pc = "write"] /\ UNCHANGED ret
          ELSE thr' = [thr EXCEPT ![t] = IdleThread] /\ ret' = FALSE
    /\ UNCHANGED <<file_bytes, handed, calls>>
    /\ SameButLogger

\* line 153: write_with_timestamp, its writes inside logger.lock.
WtlWrite(t, io) ==
    /\ thr[t].pc = "write"
    /\ \E r \in {write_with_timestamp(TheWorld, thr[t].bytes, io)} :
       /\ logger' = r.w.logger
       /\ file_bytes' = r.w.file_bytes
       /\ ret' = r.ret
    /\ thr' = [thr EXCEPT ![t] = IdleThread]
    /\ UNCHANGED <<handed, calls>>
    /\ SameButLogger

NextLogger ==
    \/ \E env \in SomeLogEnvs : OpenLogger(env)
    \/ CloseLogger
    \/ \E t \in Threads, data \in WtlDataInputs : WtlEnter(t, data)
    \/ \E t \in Threads : WtlValidate(t)
    \/ \E t \in Threads : WtlCheck(t)
    \/ \E t \in Threads, io \in SomeIo : WtlWrite(t, io)

SpecLogger == Init /\ [][NextLogger]_vars

\* C7: a write_to_log call that finds current_file_size + its payload length
\* above LOG_MAX_FILE_SIZE returns false at the size check: nothing is written
\* to the file and current_file_size, total_writes, failed_writes and
\* bytes_written stay as they are.
C7_CapRejects ==
    [][\A t \in Threads :
         (/\ WtlCheck(t)
          /\ logger.current_file_size + Len(thr[t].bytes) > LOG_MAX_FILE_SIZE)
         => /\ ret' = FALSE
            /\ thr'[t].pc = "idle"
            /\ file_bytes' = file_bytes
            /\ logger'.current_file_size = logger.current_file_size
            /\ logger'.stats = logger.stats]_vars

\* A call has been turned away by the size check after an earlier one wrote.
C7_Witness ==
    /\ logger.last_error = LOG_ERROR_SIZE
    /\ ~ret
    /\ \A t \in Threads : thr[t].pc = "idle"
    /\ logger.stats.total_writes >= 1
    /\ ~BadLogArgs(MkData(handed))
    /\ logger.current_file_size + Len(handed) > LOG_MAX_FILE_SIZE

\* C8: the logger's current_file_size never exceeds LOG_MAX_FILE_SIZE, with
\* any number of threads inside write_to_log, the file having been within the
\* cap when it was opened.
C8_SizeWithinCap ==
    logger.initialized => logger.current_file_size <= LOG_MAX_FILE_SIZE

---------------------------------------------------------------------------
(* The capture controller (capture.c)                                      *)
(* capture_event_callback returns at line 52 whatever it is given, so the  *)
(* calls of lines 54-87 are made by no run of the program; the actions     *)
(* below make those calls one at a time, each where the callback's text    *)
(* places it: while capture.active, buffer_event_entry with buffer_events  *)
(* set and write_event_to_file without, rotate_log_file when               *)
(* should_rotate_log holds.                                                *)

CaptureCounted == calls < MaxCaptureCalls /\ calls' = calls + 1

\* Everything the capture controller's calls leave alone.
SameButCapture ==
    UNCHANGED <<hooks_active, last_error, enq_log, delivered, buffer, logger,
                file_bytes, handed, thr, main_pc, running, lk, stk, fmt, accepted, wf, renamed, timer>>

\* The same for rotate_log_file, which renames the file.
SameButRotation ==
    UNCHANGED <<hooks_active, last_error, enq_log, delivered, buffer, logger,
                file_bytes, handed, thr, main_pc, running, lk, stk, fmt, accepted, wf,
                timer>>

\* The call made is name: op keeps the names of the last two calls.
Called(name) == op' = <<op[2], name>>

\* Configurations given to init_capture and set_capture_config: none, direct
\* writes without and with rotation, buffered writes, and four that
\* validate_config turns away: a max_file_size of 0, a flush_interval of 0, a
\* log_path that is empty or too long, and buffering with a max_file_size
\* below CAPTURE_BUFFER_SIZE.
ConfigInputs ==
    {NullConfig,
     MkConfig(TRUE, "CAPTURE_MODE_NORMAL", CAPTURE_FLUSH_INTERVAL, SmallFileSize, FALSE, FALSE),
     MkConfig(TRUE, "CAPTURE_MODE_NORMAL", CAPTURE_FLUSH_INTERVAL, SmallFileSize, TRUE, FALSE),
     MkConfig(TRUE, "CAPTURE_MODE_NORMAL", CAPTURE_FLUSH_INTERVAL, SmallFileSize, FALSE, TRUE),
     MkConfig(TRUE, "CAPTURE_MODE_NORMAL", CAPTURE_FLUSH_INTERVAL, 0, FALSE, FALSE),
     MkConfig(TRUE, "CAPTURE_MODE_NORMAL", 0, SmallFileSize, FALSE, FALSE),
     MkConfig(FALSE, "CAPTURE_MODE_NORMAL", CAPTURE_FLUSH_INTERVAL, SmallFileSize, FALSE, FALSE),
     MkConfig(TRUE, "CAPTURE_MODE_NORMAL", CAPTURE_FLUSH_INTERVAL, CAPTURE_BUFFER_SIZE - 1, FALSE, TRUE)}

\* init_capture with all well, with malloc failing and with fopen failing.
CaptureOpens == [lock_ok |-> TRUE, malloc_ok |-> TRUE, dir_ok |-> TRUE, open_ok |-> TRUE]
CaptureEnvs ==
    {CaptureOpens, [CaptureOpens EXCEPT !.malloc_ok = FALSE],
     [CaptureOpens EXCEPT !.open_ok = FALSE]}

\* The entries format_event_entry makes of the events, and a null pointer.
EntryInputs ==
    {NullData} \cup
    {MkData(format_event_entry(e))
       : e \in EventInputs \cup {MkEvent("EVENT_WINDOW_CHANGE", FALSE, 1)}}

RotateEnvs == [rename_ok : BOOLEAN, open_ok : BOOLEAN]

InitCapture(config, env) ==
    \E r \in {init_capture(capture, cfile, config, env)} :
    /\ capture' = r.c
    /\ cfile' = r.f
    /\ ret' = r.ret
    /\ CaptureCounted
    /\ UNCHANGED hooks
    /\ Called("init_capture")
    /\ SameButCapture

CleanupCapture(wr_ok) ==
    \E r \in {cleanup_capture(capture, cfile, hooks, wr_ok)} :
    /\ capture' = r.c
    /\ cfile' = r.f
    /\ hooks' = r.hooks
    /\ CaptureCounted
    /\ UNCHANGED ret
    /\ Called("cleanup_capture")
    /\ SameButCapture

StartCapture ==
    \E r \in {start_capture(capture, hooks)} :
    /\ capture' = r.c
    /\ hooks' = r.hooks
    /\ ret' = r.ret
    /\ CaptureCounted
    /\ UNCHANGED cfile
    /\ Called("start_capture")
    /\ SameButCapture

StopCapture(wr_ok) ==
    \E r \in {stop_capture(capture, cfile, hooks, wr_ok)} :
    /\ capture' = r.c
    /\ cfile' = r.f
    /\ hooks' = r.hooks
    /\ CaptureCounted
    /\ UNCHANGED ret
    /\ Called("stop_capture")
    /\ SameButCapture

SetCaptureConfig(config) ==
    /\ capture' = set_capture_config(capture, config)
    /\ Called("set_capture_config")
    /\ CaptureCounted
    /\ UNCHANGED <<hooks, cfile, ret>>
    /\ SameButCapture

FlushCaptureBuffer(wr_ok) ==
    \E r \in {flush_capture_buffer(capture, cfile, wr_ok)} :
    /\ CaptureCounted
    /\ capture' = r.c
    /\ cfile' = r.f
    /\ ret' = r.ret
    /\ UNCHANGED hooks
    /\ Called("flush_capture_buffer")
    /\ SameButCapture

\* line 72: write_event_to_file(entry); events_captured counts its successes.
WriteEventToFile(entry, wr_ok) ==
    \E r \in {write_event_to_file(capture, cfile, entry, wr_ok)} :
    /\ capture.active
    /\ ~capture.config.buffer_events
    /\ CaptureCounted
    /\ capture' = [r.c EXCEPT !.stats.events_captured = IF r.ret THEN @ + 1 ELSE @]
    /\ cfile' = r.f
    /\ ret' = r.ret
    /\ UNCHANGED hooks
    /\ Called("write_event_to_file")
    /\ SameButCapture

\* line 61: buffer_event_entry(entry); events_buffered counts its successes
\* and buffer_overflows its failures.
BufferEventEntry(entry, wr_ok) ==
    \E r \in {buffer_event_entry(capture, cfile, entry, wr_ok)} :
    /\ capture.active
    /\ capture.config.buffer_events
    /\ CaptureCounted
    /\ capture' = [r.c EXCEPT
                      !.stats.events_buffered = IF r.ret THEN @ + 1 ELSE @,
                      !.stats.buffer_overflows = IF r.ret THEN @ ELSE @ + 1]
    /\ cfile' = r.f
    /\ ret' = r.ret
    /\ UNCHANGED hooks
    /\ Called("buffer_event_entry")
    /\ SameButCapture

\* line 65: flush_buffer_to_file(), should_flush holding.
FlushBufferToFile(wr_ok) ==
    \E r \in {flush_buffer_to_file(capture, cfile, wr_ok)} :
    /\ capture.active
    /\ capture.config.buffer_events
    /\ CaptureCounted
    /\ capture' = r.c
    /\ cfile' = r.f
    /\ ret' = r.ret
    /\ UNCHANGED hooks
    /\ Called("flush_buffer_to_file")
    /\ SameButCapture

\* lines 83-85: rotate_log_file(), should_rotate_log holding.
RotateLogFile(env) ==
    \E r \in {rotate_log_file(capture, cfile, env)} :
    /\ capture.active
    /\ should_rotate_log(capture, cfile)
    /\ CaptureCounted
    /\ capture' = r.c
    /\ cfile' = r.f
    /\ ret' = r.ret
    /\ \E st \in LocalTimes :
         renamed' = IF env.rename_ok THEN new_path(st) ELSE renamed
    /\ UNCHANGED hooks
    /\ Called("rotate_log_file")
    /\ SameButRotation

\* hooks.c:308 with the controller's callback registered: hooks.callback(event)
\* runs capture_event_callback, which touches neither the controller nor the
\* file.
CaptureEventCallback(e) ==
    /\ capture.active
    /\ hooks.callback = "capture_event_callback"
    /\ SetWorld(RunCallback(hooks.callback, TheWorld, e, NoFails))
    /\ CaptureCounted
    /\ Called("capture_event_callback")
    /\ UNCHANGED <<hooks, capture, cfile, ret>>
    /\ UNCHANGED <<hooks_active, last_error, enq_log, delivered, thr, main_pc,
                   running, lk, stk, fmt, accepted, wf, renamed, timer>>

NextCapture ==
    \/ \E config \in ConfigInputs, env \in CaptureEnvs : InitCapture(config, env)
    \/ \E wr_ok \in BOOLEAN : CleanupCapture(wr_ok)
    \/ StartCapture
    \/ \E wr_ok \in BOOLEAN : StopCapture(wr_ok)
    \/ \E config \in {c \in ConfigInputs : c.null \/ validate_config(c)} :
           SetCaptureConfig(config)
    \/ \E wr_ok \in BOOLEAN : FlushCaptureBuffer(wr_ok)
    \/ \E entry \in EntryInputs, wr_ok \in BOOLEAN : WriteEventToFile(entry, wr_ok)
    \/ \E entry \in EntryInputs, wr_ok \in BOOLEAN : BufferEventEntry(entry, wr_ok)
    \/ \E wr_ok \in BOOLEAN : FlushBufferToFile(wr_ok)
    \/ \E env \in RotateEnvs : RotateLogFile(env)
    \/ \E e \in EventInputs : CaptureEventCallback(e)

SpecCapture == Init /\ [][NextCapture]_vars

\* C9: a direct event write, or a flush of the staging buffer, that would take
\* the capture log file past config.max_file_size writes no byte and returns
\* false, with rotate_logs set or not.
C9_CapRejects ==
    [][/\ \A entry \in EntryInputs, wr_ok \in BOOLEAN :
            (/\ WriteEventToFile(entry, wr_ok)
             /\ cfile + Len(entry.bytes) > capture.config.max_file_size)
            => (cfile' = cfile /\ ~ret')
       /\ \A wr_ok \in BOOLEAN :
            (/\ FlushBufferToFile(wr_ok) \/ FlushCaptureBuffer(wr_ok)
             /\ capture.buffer_size > 0
             /\ cfile + capture.buffer_size > capture.config.max_file_size)
            => (cfile' = cfile /\ ~ret')]_vars

\* C10: a rotate_log_file call whose rename fails leaves the log file open
\* and the file as it was, so that the writes that follow go to it.
C10_RenameFailureKeepsFile ==
    [][\A env \in RotateEnvs :
         (RotateLogFile(env) /\ ~env.rename_ok)
         => (capture'.log_file = "OPEN" /\ cfile' = cfile)]_vars

\* C11: a stop_capture call leaves capture.active false, and a stop_capture
\* call made while capture.active is false changes nothing (the controller,
\* the file and the registered callback stay as they are), so that a second
\* stop after any stop, whatever fwrite does, gives the state of the first.
C11_StopIdempotent ==
    [][\A wr_ok \in BOOLEAN :
         StopCapture(wr_ok)
         => /\ ~capture'.active
            /\ ~capture.active
                 => (capture' = capture /\ cfile' = cfile /\ hooks' = hooks)
            /\ \A again \in BOOLEAN :
                 stop_capture(capture', cfile', hooks', again)
                   = [c |-> capture', f |-> cfile', hooks |-> hooks']]_vars

\* stop_capture has been called twice in a row, the first call's flush having
\* failed: the staged bytes are still there for the second call to leave alone.
C11_Witness ==
    /\ op = <<"stop_capture", "stop_capture">>
    /\ capture.initialized
    /\ ~capture.active
    /\ capture.buffer_size > 0
    /\ capture.stats.write_errors = 1

\* The per-path outcome counters of the controller's statistics.
OutcomeCounters ==
    {"events_buffered", "buffer_overflows", "events_captured", "write_errors"}

\* C12: an event handed to the controller's callback while capture is active
\* is staged (buffer_events set) or written to the file, and exactly one of
\* events_buffered, buffer_overflows, events_captured and write_errors grows,
\* by one.
C12_EventPath ==
    [][\A e \in EventInputs :
         (CaptureEventCallback(e) /\ capture.active)
         => /\ \E n \in OutcomeCounters :
                 /\ capture'.stats[n] = capture.stats[n] + 1
                 /\ \A o \in OutcomeCounters \ {n} :
                      capture'.stats[o] = capture.stats[o]
            /\ \/ capture'.staged # capture.staged
               \/ cfile' # cfile
               \/ capture'.stats.buffer_overflows # capture.stats.buffer_overflows
               \/ capture'.stats.write_errors # capture.stats.write_errors]_vars

\* The constraints on a configuration: a log_path that is not empty and is
\* shorter than CAPTURE_MAX_PATH, a flush_interval and a max_file_size above
\* 0 and, with buffer_events, a max_file_size of at least CAPTURE_BUFFER_SIZE.
ConfigConstraints(config) ==
    /\ config.path_ok
    /\ config.flush_interval > 0
    /\ config.max_file_size > 0
    /\ config.buffer_events => config.max_file_size >= CAPTURE_BUFFER_SIZE

\* C15: an init_capture call given a configuration returns true only if the
\* configuration meets the constraints; given one that does not, it returns
\* false with last_error CAPTURE_ERROR_INIT and leaves initialized and active
\* as they were (false for a controller that was not initialized).  Given no
\* configuration it sets the defaults, which meet the constraints.
C15_InitValidates ==
    [][\A config \in ConfigInputs, env \in CaptureEnvs :
         InitCapture(config, env)
         => /\ (ret' /\ ~config.null) => ConfigConstraints(config)
            /\ (~config.null /\ ~ConfigConstraints(config))
                 => /\ ~ret'
                    /\ capture'.last_error = CAPTURE_ERROR_INIT
                    /\ capture'.initialized = capture.initialized
                    /\ capture'.active = capture.active
                    /\ ~capture.initialized
                         => (~capture'.initialized /\ ~capture'.active)
            /\ (ret' /\ config.null)
                 => /\ capture'.config = DefaultConfig
                    /\ ConfigConstraints(DefaultConfig)
            /\ ret' => (capture'.initialized /\ ConfigConstraints(capture'.config))]_vars

\* init_capture has turned a configuration away: the controller is not
\* initialized and the error is CAPTURE_ERROR_INIT.
C15_Witness ==
    /\ op[2] = "init_capture"
    /\ ~ret
    /\ ~capture.initialized
    /\ ~capture.active
    /\ capture.last_error = CAPTURE_ERROR_INIT

\* C16: while capture is active no call changes capture.config, short of a
\* cleanup, and the configuration of an initialized controller meets the
\* constraints init_capture checks.
C16_ConfigImmutable ==
    [][/\ capture'.initialized => ConfigConstraints(capture'.config)
       /\ capture.active
            => (capture'.config = capture.config \/ ~capture'.initialized)]_vars

\* C20: a cleanup_capture call on an initialized controller leaves it not
\* initialized and not active, with its callback unregistered if it was
\* active, the buffer freed and empty and the file closed, the staged bytes
\* having been written to the file when the file was open and fwrite wrote
\* them; on a controller that is not initialized it changes nothing.  While
\* the controller is not initialized start_capture returns false and leaves
\* it inactive, and only an init_capture call that returns true makes it
\* initialized.
C20_CleanupReleases ==
    [][/\ \A wr_ok \in BOOLEAN :
            CleanupCapture(wr_ok)
            => IF capture.initialized
               THEN /\ ~capture'.initialized
                    /\ ~capture'.active
                    /\ capture'.buffer_null
                    /\ capture'.buffer_size = 0
                    /\ capture'.log_file = "NULL"
                    /\ capture.active
                         => hooks'.callback # "capture_event_callback"
                    /\ (wr_ok /\ capture.log_file = "OPEN")
                         => cfile' = cfile + capture.buffer_size
               ELSE capture' = capture /\ cfile' = cfile /\ hooks' = hooks
       /\ (StartCapture /\ ~capture.initialized)
            => (~ret' /\ ~capture'.active /\ ~capture'.initialized)
       /\ (~capture.initialized /\ capture'.initialized)
            => (op'[2] = "init_capture" /\ ret')]_vars

\* cleanup_capture has been called on an active controller with an entry
\* staged: the entry is in the file and the controller is released.
C20_Witness ==
    /\ op = <<"buffer_event_entry", "cleanup_capture">>
    /\ ~capture.initialized
    /\ ~capture.active
    /\ capture.buffer_null
    /\ capture.log_file = "NULL"
    /\ hooks.callback = "NULL"
    /\ cfile > 0
    /\ capture.stats.bytes_written = cfile

---------------------------------------------------------------------------
(* The statistics of the four components                                   *)
(* A run is one of: main's pipeline, calls of the hooks interface, calls   *)
(* of the buffer and logger interfaces, calls of the capture interface.    *)

\* The components a run has not called yet are as the static initialisers
\* left them.
HooksIdle ==
    /\ [hooks EXCEPT !.callback = "NULL"] = ZeroHooks
    /\ ~hooks_active
    /\ last_error = HOOK_ERROR_NONE
    /\ enq_log = <<>>
    /\ delivered = <<>>
WorldIdle == buffer = ZeroBuffer /\ logger = ZeroLogger
CaptureIdle == capture = ZeroCapture /\ op = <<"", "">>
MainIdle == main_pc = "init_logger"

NextStats ==
    \/ CaptureIdle /\ (MainIdle => (HooksIdle /\ WorldIdle)) /\ NextMain
    \/ MainIdle /\ WorldIdle /\ CaptureIdle /\ NextHooks
    \/ MainIdle /\ HooksIdle /\ CaptureIdle /\ NextBuffer
    \/ MainIdle /\ HooksIdle /\ WorldIdle /\ NextCapture

SpecStats == Init /\ [][NextStats]_vars

\* No counter of the record s is lower in t.
NoLower(s, t) == \A n \in DOMAIN s : t[n] >= s[n]

\* The calls that set a component's statistics to zero: init_hooks;
\* init_buffer and clear_buffer; init_logger; init_capture.
HooksStatsReset ==
    \/ InitHooks("event_callback", HooksInstall)
    \/ \E env \in {HooksInstall, [HooksInstall EXCEPT !.mouse_ok = FALSE]} :
           MainInitHooks(env)
BufferStatsReset ==
    \/ \E malloc_ok \in BOOLEAN : InitBuffer(malloc_ok) \/ MainInitBuffer(malloc_ok)
    \/ ClearBuffer
LoggerStatsReset == \E env \in SomeLogEnvs : InitLogger(env) \/ MainInitLogger(env)
CaptureStatsReset ==
    \E config \in ConfigInputs, env \in CaptureEnvs : InitCapture(config, env)

\* C17: no step lowers a counter of the hooks, buffer, logger or capture
\* statistics, except a step of the component's init call or of clear_buffer,
\* which sets the component's counters to zero.
C17_CountersMonotone ==
    [][/\ \/ NoLower(hooks.stats, hooks'.stats)
          \/ HooksStatsReset /\ hooks'.stats = ZeroStats
       /\ \/ NoLower(buffer.stats, buffer'.stats)
          \/ BufferStatsReset /\ buffer'.stats = ZeroBufStats
       /\ \/ NoLower(logger.stats, logger'.stats)
          \/ LoggerStatsReset /\ logger'.stats = ZeroLogStats
       /\ \/ NoLower(capture.stats, capture'.stats)
          \/ CaptureStatsReset /\ capture'.stats = ZeroCaptureStats]_vars

\* The staging buffer of the controller has been flushed to the file and the
\* counters of the events staged and of the bytes written stand.
C17_Witness ==
    /\ op[2] = "flush_buffer_to_file"
    /\ ret
    /\ capture.buffer_size = 0
    /\ capture.stats.events_buffered >= 1
    /\ capture.stats.bytes_written > 0

\* C18: a call of add_to_buffer, force_flush_buffer, flush_buffer_if_needed,
\* init_buffer, init_logger, init_capture, start_capture or
\* flush_capture_buffer that returns false leaves the last_error of its
\* component different from the component's NONE code, and a flush that
\* failed in write_to_log leaves the logger's last_error different from
\* LOG_ERROR_NONE.
C18_FailureSetsError ==
    [][/\ ( /\ \/ \E data \in BufDataInputs, io \in SomeIo : AddToBuffer(data, io)
               \/ \E io \in SomeIo : ForceFlushBuffer(io) \/ FlushBufferIfNeeded(io)
               \/ \E malloc_ok \in BOOLEAN : InitBuffer(malloc_ok)
            /\ ~ret' )
          => buffer'.last_error # BUFFER_ERROR_NONE
       /\ ( /\ \E io \in SomeIo : ForceFlushBuffer(io)
            /\ buffer'.stats.failed_flushes = buffer.stats.failed_flushes + 1 )
          => logger'.last_error # LOG_ERROR_NONE
       /\ ( (\E env \in SomeLogEnvs : InitLogger(env)) /\ ~ret' )
          => logger'.last_error # LOG_ERROR_NONE
       /\ ( /\ \/ \E config \in ConfigInputs, env \in CaptureEnvs :
                    InitCapture(config, env)
               \/ StartCapture
               \/ \E wr_ok \in BOOLEAN : FlushCaptureBuffer(wr_ok)
            /\ ~ret' )
          => capture'.last_error # CAPTURE_ERROR_NONE]_vars

---------------------------------------------------------------------------
(* The critical sections.  Each function is the sequence of its lock       *)
(* operations, of the calls it makes and of the steps it takes between     *)
(* them, in the order of its source; a thread runs one instruction at a    *)
(* time, so that the threads of the program interleave as they can.        *)

\* The operations a run of the lock-level model starts at most.
MaxLockCalls == 3
\* The write_to_log calls a run of the log writer alone makes at most.
MaxWriteCalls == 2

I(k, a) == [k |-> k, a |-> a]

\* The instructions of each function.  enter, leave, init and delete name a
\* critical section; call, callif (called when the last result is true) and
\* maycall (a hook procedure the message pump may run) name a function;
\* callback calls hooks.callback; do names a step on the data; retif and
\* retifnot return on the last result; againif loops on it.
Code(fn) ==
    CASE fn = "init_logger" ->
            << I("do", "il_check"), I("retifnot", ""),
               I("init", "logger.lock"), I("enter", "logger.lock"),
               I("do", "il_body"), I("leave", "logger.lock"),
               I("retif", ""), I("delete", "logger.lock") >>
      [] fn = "cleanup_logger" ->
            << I("do", "logger_initialized"), I("retifnot", ""),
               I("enter", "logger.lock"), I("do", "cl_body"),
               I("leave", "logger.lock"), I("delete", "logger.lock") >>
      [] fn = "validate_logger_state" ->
            << I("enter", "logger.lock"), I("do", "vl_body"),
               I("leave", "logger.lock") >>
      [] fn = "write_to_log" ->
            << I("do", "wtl_args"), I("retifnot", ""),
               I("call", "validate_logger_state"), I("retifnot", ""),
               I("do", "wtl_size"), I("retifnot", ""),
               I("call", "write_with_timestamp") >>
      [] fn = "write_with_timestamp" ->
            << I("enter", "logger.lock"), I("do", "wwt_body"),
               I("leave", "logger.lock") >>
      [] fn = "init_buffer" ->
            << I("enter", "buffer.lock"), I("do", "buffer_initialized"),
               I("leave", "buffer.lock"), I("do", "ib_was"), I("retifnot", ""),
               I("init", "buffer.lock"), I("enter", "buffer.lock"),
               I("do", "ib_body"), I("leave", "buffer.lock"),
               I("retif", ""), I("delete", "buffer.lock") >>
      [] fn = "validate_buffer_state" ->
            << I("enter", "buffer.lock"), I("do", "vb_body"),
               I("leave", "buffer.lock") >>
      [] fn = "add_to_buffer" ->
            << I("call", "validate_buffer_state"), I("retifnot", ""),
               I("enter", "buffer.lock"), I("do", "ab_full"),
               I("callif", "force_flush_buffer"), I("do", "ab_copy"),
               I("leave", "buffer.lock") >>
      [] fn = "force_flush_buffer" ->
            << I("call", "validate_buffer_state"), I("retifnot", ""),
               I("do", "ff_nonempty"), I("retifnot", ""),
               I("enter", "buffer.lock"), I("do", "ff_count"),
               I("call", "write_to_log"), I("do", "ff_done"),
               I("leave", "buffer.lock") >>
      [] fn = "init_hooks" ->
            << I("do", "ih_check"), I("retifnot", ""),
               I("init", "hooks.lock"), I("init", "queue_lock"),
               I("enter", "hooks.lock"), I("do", "ih_body"),
               I("leave", "hooks.lock") >>
      [] fn = "cleanup_hooks" ->
            << I("do", "hooks_active"), I("retifnot", ""),
               I("do", "ch_deactivate"), I("enter", "hooks.lock"),
               I("call", "process_remaining_events"), I("do", "ch_body"),
               I("leave", "hooks.lock"),
               I("delete", "hooks.lock"), I("delete", "queue_lock") >>
      [] fn = "process_remaining_events" ->
            << I("call", "process_queued_event"), I("againif", "") >>
      [] fn = "process_queued_event" ->
            << I("do", "pqe_check"), I("retifnot", ""),
               I("enter", "queue_lock"), I("do", "pqe_peek"),
               I("callback", ""), I("do", "pqe_advance"),
               I("leave", "queue_lock") >>
      [] fn = "queue_event" ->
            << I("do", "hooks_active"), I("retifnot", ""),
               I("do", "qe_filter"), I("retif", ""),
               I("enter", "queue_lock"), I("do", "qe_body"),
               I("leave", "queue_lock") >>
      [] fn = "process_events" ->
            << I("do", "hooks_active"), I("retifnot", ""),
               I("enter", "hooks.lock"), I("do", "caw"),
               I("maycall", "queue_event"),
               I("call", "process_remaining_events"),
               I("leave", "hooks.lock"), I("do", "pe_done") >>
      [] fn = "register_hook_callback" ->
            << I("enter", "hooks.lock"), I("do", "rh_body"),
               I("leave", "hooks.lock") >>
      [] fn = "unregister_hook_callback" ->
            << I("enter", "hooks.lock"), I("do", "uh_body"),
               I("leave", "hooks.lock") >>
      [] fn = "event_callback" ->
            << I("call", "add_to_buffer") >>
      [] fn = "capture_event_callback" ->
            << I("do", "cec_return") >>
      [] fn = "init_capture" ->
            << I("do", "ic_check"), I("retifnot", ""),
               I("init", "capture.lock"), I("enter", "capture.lock"),
               I("do", "ic_body"), I("leave", "capture.lock"),
               I("retif", ""), I("delete", "capture.lock") >>
      [] fn = "start_capture" ->
            << I("do", "sc_check"), I("retifnot", ""),
               I("enter", "capture.lock"), I("call", "register_hook_callback"),
               I("do", "sc_body"), I("leave", "capture.lock") >>
      [] fn = "stop_capture" ->
            << I("do", "capture_active"), I("retifnot", ""),
               I("enter", "capture.lock"), I("call", "unregister_hook_callback"),
               I("do", "st_body"), I("leave", "capture.lock") >>
      [] fn = "cleanup_capture" ->
            << I("do", "capture_initialized"), I("retifnot", ""),
               I("enter", "capture.lock"), I("do", "capture_active"),
               I("callif", "stop_capture"), I("do", "cc_body"),
               I("leave", "capture.lock"), I("delete", "capture.lock") >>

\* The operations a thread starts.  Thread 1 is the thread of main: it
\* brings the pipeline up, pumps and drains in process_events (the hook
\* procedures run on it, inside the pump), and takes the pipeline down.
\* Thread 2 is any other thread: that of cleanup_handler, which main.c
\* installs for SIGINT and SIGTERM and which calls force_flush_buffer, and
\* that of a caller of the buffer, of the log writer or of the capture
\* controller.
MainOps ==
    {"init_logger", "init_buffer", "init_hooks", "process_events",
     "cleanup_logger", "cleanup_hooks"}

OtherOps ==
    {"add_to_buffer", "force_flush_buffer", "write_to_log",
     "init_capture", "start_capture", "stop_capture", "cleanup_capture"}

PublicOps(t) == IF t = 1 THEN MainOps ELSE OtherOps

\* The component a function belongs to, and the component a lock belongs to.
ComponentOf(fn) ==
    CASE fn \in {"init_logger", "cleanup_logger", "validate_logger_state",
                 "write_to_log", "write_with_timestamp"} -> "logger"
      [] fn \in {"init_buffer", "validate_buffer_state", "add_to_buffer",
                 "force_flush_buffer"} -> "buffer"
      [] fn \in {"init_hooks", "cleanup_hooks", "process_remaining_events",
                 "process_queued_event", "queue_event", "process_events",
                 "register_hook_callback", "unregister_hook_callback"} -> "hooks"
      [] fn \in {"capture_event_callback", "init_capture", "start_capture",
                 "stop_capture", "cleanup_capture"} -> "capture"
      [] fn = "event_callback" -> "main"

LockComponent(l) ==
    CASE l \in {"hooks.lock", "queue_lock"} -> "hooks"
      [] l = "buffer.lock" -> "buffer"
      [] l = "logger.lock" -> "logger"
      [] l = "capture.lock" -> "capture"

\* The functions that return void: their caller keeps its last result.
VoidFns ==
    {"cleanup_logger", "cleanup_hooks", "process_remaining_events",
     "unregister_hook_callback", "event_callback", "capture_event_callback",
     "stop_capture", "cleanup_capture"}

\* The key press a hook procedure queues, and the line event_callback formats
\* of it.
LockEvent == MkEvent("EVENT_KEY_PRESS", FALSE, 65)
LockLine == EventLine(LockEvent)

Frame(fn, arg) == [fn |-> fn, pc |-> 1, v |-> TRUE, arg |-> arg]

Top(t) == stk[t][Len(stk[t])]

InCall(t) == stk[t] # <<>>

\* A thread that entered a critical section that is not initialised and
\* never came back.
Hung(t) == InCall(t) /\ Top(t).pc = 0

\* The instruction thread t is at.
At(t, k) ==
    /\ InCall(t)
    /\ Top(t).pc \in 1..Len(Code(Top(t).fn))
    /\ Code(Top(t).fn)[Top(t).pc].k = k

Operand(t) == Code(Top(t).fn)[Top(t).pc].a

\* The stack of t with the top frame one instruction further and v its result.
Advance(t, v) ==
    [stk EXCEPT ![t][Len(stk[t])] = [@ EXCEPT !.pc = @ + 1, !.v = v]]

Holds(t, l) == lk[l].owner = t /\ lk[l].count > 0

\* The data the steps work on.
TheData ==
    [hooks |-> hooks, active |-> hooks_active, err |-> last_error, w |-> TheWorld,
     c |-> capture, f |-> cfile, dl |-> delivered, eq |-> enq_log]

Out(d, v) == [d |-> d, v |-> v]

\* The step called name, taken on the data d by a function whose last result
\* is v and whose argument is arg; ok tells whether the call the step makes
\* to the system (CreateFile, malloc, SetWindowsHookEx, fopen, the clock,
\* fwrite) succeeds.  The result is the new data and the new last result.
Effect(name, d, v, arg, ok) ==
    CASE name = "il_check" ->
            IF d.w.logger.initialized
            THEN Out([d EXCEPT !.w.logger =
                                   set_logger_error_internal(@, LOG_ERROR_INIT)], FALSE)
            ELSE Out(d, TRUE)
      [] name = "il_body" ->
            The({ Out([d EXCEPT !.w.logger = r.logger], r.ret)
                  : r \in {init_logger([d.w.logger EXCEPT !.initialized = FALSE],
                                       d.w.file_bytes, [LogOpens EXCEPT !.open_ok = ok])} })
      [] name = "logger_initialized" -> Out(d, d.w.logger.initialized)
      [] name = "cl_body" -> Out([d EXCEPT !.w.logger = cleanup_logger(@)], v)
      [] name = "vl_body" ->
            The({ Out([d EXCEPT !.w.logger = r.logger], r.ret)
                  : r \in {validate_logger_state(d.w.logger)} })
      [] name = "wtl_args" ->
            IF arg = <<>> \/ Len(arg) > LOG_BUFFER_SIZE
            THEN Out([d EXCEPT !.w.logger =
                                   set_logger_error_internal(@, LOG_ERROR_INVALID),
                               !.w.handed = arg], FALSE)
            ELSE Out([d EXCEPT !.w.handed = arg], TRUE)
      [] name = "wtl_size" ->
            The({ Out([d EXCEPT !.w.logger = r.logger], r.ret)
                  : r \in {check_file_size(d.w.logger,
                                           Len(arg) + LOG_TIMESTAMP_SIZE + 1)} })
      [] name = "wwt_body" ->
            The({ Out([d EXCEPT !.w = r.w], r.ret)
                  : r \in {write_with_timestamp(d.w, arg,
                                                [NoFails EXCEPT !.time_ok = ok])} })
      [] name = "buffer_initialized" -> Out(d, d.w.buffer.initialized)
      [] name = "ib_was" ->
            IF v
            THEN Out([d EXCEPT !.w.buffer =
                                   set_buffer_error_internal(@, BUFFER_ERROR_INIT)], FALSE)
            ELSE Out(d, TRUE)
      [] name = "ib_body" ->
            The({ Out([d EXCEPT !.w.buffer = r.buffer], r.ret)
                  : r \in {init_buffer([d.w.buffer EXCEPT !.initialized = FALSE], ok)} })
      [] name = "vb_body" ->
            The({ Out([d EXCEPT !.w.buffer = r.buffer], r.ret)
                  : r \in {validate_buffer_state(d.w.buffer)} })
      [] name = "ab_full" ->
            Out(d, d.w.buffer.size + Len(arg) > d.w.buffer.capacity)
      [] name = "ab_copy" ->
            IF ~v THEN Out([d EXCEPT !.w.buffer = AddFull(@)], FALSE)
            ELSE The({ Out([d EXCEPT !.w = r.w], r.ret)
                       : r \in {CopyOrFull(d.w, arg, FALSE)} })
      [] name = "ff_nonempty" -> Out(d, d.w.buffer.size # 0)
      [] name = "ff_count" ->
            Out([d EXCEPT !.w.buffer.stats.total_flushes = @ + 1], v)
      [] name = "ff_done" ->
            IF v
            THEN Out([d EXCEPT !.w.buffer.size = 0,
                               !.w.buffer.data = Zeroed(d.w.buffer.capacity)], TRUE)
            ELSE Out([d EXCEPT !.w.buffer.stats.failed_flushes = @ + 1,
                               !.w.buffer.last_error = BUFFER_ERROR_FLUSH], FALSE)
      [] name = "ih_check" ->
            IF d.active THEN Out([d EXCEPT !.err = HOOK_ERROR_INVALID], FALSE)
            ELSE Out(d, TRUE)
      [] name = "ih_body" ->
            The({ Out([d EXCEPT !.hooks = r.hooks, !.active = r.active,
                                !.err = r.last_error, !.eq = <<>>, !.dl = <<>>], r.ret)
                  : r \in {init_hooks(d.hooks, FALSE, d.err, "event_callback",
                                      [HooksInstall EXCEPT !.mouse_ok = ok])} })
      [] name = "hooks_active" -> Out(d, d.active)
      [] name = "ch_deactivate" -> Out([d EXCEPT !.active = FALSE], v)
      [] name = "ch_body" ->
            Out([d EXCEPT !.hooks = [@ EXCEPT !.keyboard = FALSE, !.mouse = FALSE,
                                              !.activeWindow = 0,
                                              !.callback = "NULL"]], v)
      [] name = "pqe_check" -> Out(d, d.active /\ d.hooks.callback # "NULL")
      [] name = "pqe_peek" -> Out(d, d.hooks.queue_head # d.hooks.queue_tail)
      [] name = "pqe_advance" ->
            IF v
            THEN Out([d EXCEPT !.hooks.queue_head = (@ + 1) % MAX_EVENT_QUEUE], TRUE)
            ELSE Out(d, FALSE)
      [] name = "qe_filter" ->
            Out(d, ~should_process_event(d.hooks.filters, LockEvent))
      [] name = "qe_body" ->
            The({ Out([d EXCEPT !.hooks = r.hooks,
                                !.eq = IF r.stored THEN Append(@, LockEvent) ELSE @],
                      r.ret)
                  : r \in {queue_event(d.hooks, TRUE, LockEvent)} })
      [] name = "pe_done" -> Out(d, TRUE)
      [] name = "caw" ->
            The({ Out([d EXCEPT !.hooks = r.hooks], v)
                  : r \in {check_active_window(d.hooks, d.active, 0)} })
      [] name = "rh_body" ->
            The({ Out([d EXCEPT !.hooks = r.hooks], r.ret)
                  : r \in {register_hook_callback(d.hooks, "capture_event_callback")} })
      [] name = "uh_body" ->
            Out([d EXCEPT !.hooks =
                              unregister_hook_callback(@, "capture_event_callback")], v)
      [] name = "cec_return" -> Out([d EXCEPT !.w = capture_event_callback(@, LockEvent)], v)
      [] name = "ic_check" ->
            IF d.c.initialized
            THEN Out([d EXCEPT !.c = set_capture_error(@, CAPTURE_ERROR_INIT)], FALSE)
            ELSE Out(d, TRUE)
      [] name = "ic_body" ->
            The({ Out([d EXCEPT !.c = r.c, !.f = r.f], r.ret)
                  : r \in {init_capture([d.c EXCEPT !.initialized = FALSE], d.f,
                                        NullConfig,
                                        [CaptureOpens EXCEPT !.open_ok = ok])} })
      [] name = "sc_check" ->
            IF ~d.c.initialized \/ d.c.active
            THEN Out([d EXCEPT !.c = set_capture_error(@, CAPTURE_ERROR_INIT)], FALSE)
            ELSE Out(d, TRUE)
      [] name = "sc_body" ->
            IF ~v THEN Out([d EXCEPT !.c = set_capture_error(@, CAPTURE_ERROR_HOOKS)],
                           FALSE)
            ELSE Out([d EXCEPT !.c.active = TRUE], TRUE)
      [] name = "capture_active" -> Out(d, d.c.active)
      [] name = "capture_initialized" -> Out(d, d.c.initialized)
      [] name = "st_body" ->
            The({ Out([d EXCEPT !.c = [r.c EXCEPT !.active = FALSE], !.f = r.f], v)
                  : r \in {IF d.c.buffer_size > 0
                           THEN flush_buffer_to_file(d.c, d.f, ok)
                           ELSE [c |-> d.c, f |-> d.f, ret |-> TRUE]} })
      [] name = "cc_body" ->
            The({ Out([d EXCEPT !.c = r.c, !.f = r.f], v)
                  : r \in {cleanup_capture_internal(d.c, d.f, ok)} })

\* The data become those of d.
SetData(d) ==
    /\ hooks' = d.hooks
    /\ hooks_active' = d.active
    /\ last_error' = d.err
    /\ SetWorld(d.w)
    /\ capture' = d.c
    /\ cfile' = d.f
    /\ delivered' = d.dl
    /\ enq_log' = d.eq

SameData ==
    UNCHANGED <<hooks, hooks_active, last_error, buffer, logger, file_bytes, handed,
                capture, cfile, delivered, enq_log>>

\* What the lock-level model leaves alone.
SameFlat == UNCHANGED <<thr, main_pc, running, op, fmt, accepted, wf, renamed, timer>>

\* The argument a call passes on: force_flush_buffer hands the staged bytes
\* to write_to_log, hooks.callback gets the event at the head of the ring and
\* event_callback formats its line, every other call passes its own on.
CallArg(callee, caller) ==
    CASE callee = "write_to_log" -> Staged(buffer)
      [] callee \in {"event_callback", "capture_event_callback"} ->
            EventLine(hooks.queue[hooks.queue_head])
      [] OTHER -> caller.arg

Push(t, fn) == [stk EXCEPT ![t] = Append(@, Frame(fn, CallArg(fn, Top(t))))]

\* The stack of t stopped for good where it is.
Stopped(t) == [stk EXCEPT ![t][Len(stk[t])].pc = 0]

\* A thread starts a public operation.
Begin(t, fn) ==
    /\ ~InCall(t)
    /\ calls < MaxLockCalls
    /\ calls' = calls + 1
    /\ stk' = [stk EXCEPT ![t] = << Frame(fn, IF fn \in {"write_to_log", "add_to_buffer"}
                                              THEN LockLine
                                              ELSE <<>>) >>]
    /\ SameData
    /\ SameFlat
    /\ UNCHANGED <<lk, ret>>

\* EnterCriticalSection.  A critical section that was initialised is taken
\* when it is free or owned by the caller, and waited for otherwise.  One
\* that was never initialised, or was deleted, gives undefined behaviour: the
\* call comes back with the section taken, or never comes back.
EnterLock(t) ==
    /\ At(t, "enter")
    /\ \/ /\ lk[Operand(t)].owner \in {0, t}
          /\ lk' = [lk EXCEPT ![Operand(t)].owner = t, ![Operand(t)].count = @ + 1]
          /\ stk' = Advance(t, Top(t).v)
       \/ /\ lk[Operand(t)].state # "init"
          /\ stk' = Stopped(t)
          /\ UNCHANGED lk
    /\ SameData
    /\ SameFlat
    /\ UNCHANGED <<calls, ret>>

\* LeaveCriticalSection.
LeaveLock(t) ==
    /\ At(t, "leave")
    /\ lk' = IF Holds(t, Operand(t))
             THEN [lk EXCEPT ![Operand(t)].count = @ - 1,
                             ![Operand(t)].owner = IF lk[Operand(t)].count = 1
                                                   THEN 0 ELSE t]
             ELSE lk
    /\ stk' = Advance(t, Top(t).v)
    /\ SameData
    /\ SameFlat
    /\ UNCHANGED <<calls, ret>>

\* InitializeCriticalSection.
InitLock(t) ==
    /\ At(t, "init")
    /\ lk' = [lk EXCEPT ![Operand(t)] = [state |-> "init", owner |-> 0, count |-> 0]]
    /\ stk' = Advance(t, Top(t).v)
    /\ SameData
    /\ SameFlat
    /\ UNCHANGED <<calls, ret>>

\* DeleteCriticalSection; cleanup_critical_section deletes only a section
\* that was initialised.
DeleteLock(t) ==
    /\ At(t, "delete")
    /\ lk' = IF lk[Operand(t)].state = "init"
             THEN [lk EXCEPT ![Operand(t)] =
                                 [state |-> "deleted", owner |-> 0, count |-> 0]]
             ELSE lk
    /\ stk' = Advance(t, Top(t).v)
    /\ SameData
    /\ SameFlat
    /\ UNCHANGED <<calls, ret>>

\* A call.  A call through hooks.callback that finds NULL there stops the
\* thread.
CallFn(t) ==
    /\ InCall(t)
    /\ \/ /\ At(t, "call")
          /\ stk' = Push(t, Operand(t))
          /\ UNCHANGED <<calls, delivered>>
       \/ /\ At(t, "callif")
          /\ stk' = IF Top(t).v THEN Push(t, Operand(t)) ELSE Advance(t, TRUE)
          /\ UNCHANGED <<calls, delivered>>
       \/ /\ At(t, "maycall")
          /\ \/ stk' = [stk EXCEPT ![t] = Append(@, Frame(Operand(t), <<>>))]
             \/ stk' = Advance(t, Top(t).v)
          /\ UNCHANGED <<calls, delivered>>
       \/ /\ At(t, "callback")
          /\ stk' = IF ~Top(t).v THEN Advance(t, FALSE)
                    ELSE IF hooks.callback = "NULL" THEN Stopped(t)
                    ELSE Push(t, hooks.callback)
          /\ delivered' = IF Top(t).v /\ hooks.callback # "NULL"
                          THEN Append(delivered, hooks.queue[hooks.queue_head])
                          ELSE delivered
          /\ UNCHANGED calls
    /\ UNCHANGED <<hooks, hooks_active, last_error, buffer, logger, file_bytes, handed,
                   capture, cfile, enq_log>>
    /\ SameFlat
    /\ UNCHANGED <<lk, ret>>

\* A step on the data.
DoStep(t) ==
    /\ At(t, "do")
    /\ \E ok \in BOOLEAN :
       \E r \in {Effect(Operand(t), TheData, Top(t).v, Top(t).arg, ok)} :
          /\ SetData(r.d)
          /\ stk' = Advance(t, r.v)
    /\ SameFlat
    /\ UNCHANGED <<lk, calls, ret>>

\* return on the last result, and the loop of process_remaining_events.
Branch(t) ==
    /\ InCall(t)
    /\ \/ /\ At(t, "retifnot")
          /\ stk' = IF Top(t).v THEN Advance(t, TRUE)
                    ELSE [stk EXCEPT ![t][Len(stk[t])].pc = Len(Code(Top(t).fn)) + 1]
       \/ /\ At(t, "retif")
          /\ stk' = IF ~Top(t).v THEN Advance(t, FALSE)
                    ELSE [stk EXCEPT ![t][Len(stk[t])].pc = Len(Code(Top(t).fn)) + 1]
       \/ /\ At(t, "againif")
          /\ stk' = IF ~Top(t).v THEN Advance(t, FALSE)
                    ELSE [stk EXCEPT ![t][Len(stk[t])].pc = 1]
    /\ SameData
    /\ SameFlat
    /\ UNCHANGED <<lk, calls, ret>>

\* The function at the top of the stack returns to its caller.
Return(t) ==
    /\ InCall(t)
    /\ Top(t).pc = Len(Code(Top(t).fn)) + 1
    /\ stk' = IF Len(stk[t]) = 1 THEN [stk EXCEPT ![t] = <<>>]
              ELSE [stk EXCEPT ![t] =
                        [SubSeq(stk[t], 1, Len(stk[t]) - 1)
                             EXCEPT ![Len(stk[t]) - 1] =
                                 [@ EXCEPT !.pc = @ + 1,
                                           !.v = IF Top(t).fn \in VoidFns THEN @
                                                 ELSE Top(t).v]]]
    /\ ret' = IF Len(stk[t]) = 1 /\ Top(t).fn \notin VoidFns THEN Top(t).v ELSE ret
    /\ SameData
    /\ SameFlat
    /\ UNCHANGED <<lk, calls>>

NextLocks ==
    \/ \E t \in Threads : \E fn \in PublicOps(t) : Begin(t, fn)
    \/ \E t \in Threads : EnterLock(t)
    \/ \E t \in Threads : LeaveLock(t)
    \/ \E t \in Threads : InitLock(t)
    \/ \E t \in Threads : DeleteLock(t)
    \/ \E t \in Threads : CallFn(t)
    \/ \E t \in Threads : DoStep(t)
    \/ \E t \in Threads : Branch(t)
    \/ \E t \in Threads : Return(t)

SpecLocks == Init /\ [][NextLocks]_vars

\* Some thread holds the critical section l while the function it runs
\* belongs to another component than l.
HeldAcross(l) ==
    \E t \in Threads :
        /\ InCall(t)
        /\ lk[l].state = "init"
        /\ Holds(t, l)
        /\ ComponentOf(Top(t).fn) # LockComponent(l)

\* C13: no thread holds the critical section of one component while it runs
\* a function of another component; the queue lock is released before the
\* callback runs and buffer.lock is released before the log writer is called.
C13_NoLockAcrossComponents == \A l \in Locks : ~HeldAcross(l)

\* A thread that waits for a critical section another thread owns.
Waiting(t) ==
    /\ At(t, "enter")
    /\ lk[Operand(t)].state = "init"
    /\ lk[Operand(t)].owner \notin {0, t}

CanStep(t) == InCall(t) /\ ~Hung(t) /\ ~Waiting(t)

\* C14: no deadlock state is reachable: a thread inside an operation is never
\* stopped for good, and while a thread is inside an operation some thread
\* can take a step.
C14_NoDeadlock ==
    \A t \in Threads :
        InCall(t) => (~Hung(t) /\ \E u \in Threads : CanStep(u))

\* Thread t is inside a write_to_log it started.
InWrite(t) == InCall(t) /\ stk[t][1].fn = "write_to_log"

\* C19: a failed init_logger leaves the writer uninitialised with no open
\* handle; a step of write_to_log taken while the writer is uninitialised or
\* closed does no I/O, changes neither the size nor the write counters, goes
\* on to return, and returns false; the file is written only while the writer
\* is open.
C19_LoggerStates ==
    [][/\ \A t \in Threads :
            (/\ InWrite(t)
             /\ stk'[t] # stk[t]
             /\ ~logger.initialized
             /\ ~logger'.initialized)
            => /\ file_bytes' = file_bytes
               /\ logger'.stats = logger.stats
               /\ logger'.current_file_size = logger.current_file_size
               /\ IF stk'[t] = <<>> THEN ret' = FALSE
                  ELSE stk'[t][Len(stk'[t])].pc # 0
       /\ \A t \in Threads :
            (/\ At(t, "do")
             /\ Operand(t) = "il_body"
             /\ stk'[t] # stk[t]
             /\ ~stk'[t][Len(stk'[t])].v)
            => (~logger'.initialized /\ logger'.file_handle = "INVALID")
       /\ file_bytes' # file_bytes
            => (logger.initialized /\ logger.file_handle = "OPEN")]_vars

---------------------------------------------------------------------------
(* Startup                                                                 *)

\* Nothing of the pipeline is held: no hook installed, the log file closed,
\* the staging block freed, the flags false.
PipelineReleased ==
    /\ ~hooks.keyboard
    /\ ~hooks.mouse
    /\ ~hooks_active
    /\ ~logger.initialized
    /\ logger.file_handle # "OPEN"
    /\ ~buffer.initialized
    /\ buffer.data = <<>>

\* C21: when init_logger, init_hooks or init_buffer fails, main leaves without
\* entering its loop and with every resource of the pipeline released.
C21_InitFailsClosed ==
    [][(main_pc \in {"init_logger", "init_hooks", "init_buffer"} /\ main_pc' = "exit")
       => PipelineReleased']_vars

---------------------------------------------------------------------------
(* The filter                                                              *)

\* The filter f turns e away: the capture flag of its type is off, or it is
\* an injected key or mouse event and ignore_injected is set.
Rejected(f, e) ==
    \/ e.type \in KeyTypes /\ ~f.capture_keyboard
    \/ e.type \in MouseTypes /\ ~f.capture_mouse
    \/ e.type = "EVENT_WINDOW_CHANGE" /\ ~f.capture_window_changes
    \/ e.type \in KeyTypes \cup MouseTypes /\ e.injected /\ f.ignore_injected

\* The ring and its counters are as they were.
SameRing ==
    /\ hooks'.queue_head = hooks.queue_head
    /\ hooks'.queue_tail = hooks.queue_tail
    /\ hooks'.queue = hooks.queue
    /\ hooks'.stats.total_events = hooks.stats.total_events
    /\ hooks'.stats.dropped_events = hooks.stats.dropped_events
    /\ hooks'.stats.queue_overflows = hooks.stats.queue_overflows

\* C22: queue_event returns true for an event the filter turns away and leaves
\* head, tail, the slots, total_events, dropped_events and queue_overflows as
\* they were (the window-change event of check_active_window included); an
\* EVENT_ERROR event passes the filter whatever the flags, so it is stored or
\* counted as dropped.
C22_FilteredIsHandled ==
    [][/\ \A e \in EventInputs :
            QueueEvent(e)
            => /\ Rejected(hooks.filters, e) => (ret' /\ SameRing /\ enq_log' = enq_log)
               /\ e.type = "EVENT_ERROR"
                  => \/ hooks'.stats.total_events = hooks.stats.total_events + 1
                     \/ hooks'.stats.dropped_events = hooks.stats.dropped_events + 1
       /\ \A fg \in Windows :
            (/\ CheckActiveWindow(fg)
             /\ hooks'.stats.window_changes # hooks.stats.window_changes
             /\ ~hooks.filters.capture_window_changes)
            => SameRing]_vars

\* With the keyboard and the window changes filtered out, a window change was
\* turned away (it is counted in window_changes only) and an EVENT_ERROR event
\* went into the ring.
C22_Witness ==
    /\ hooks_active
    /\ hooks.filters = MkFilters(FALSE, TRUE, FALSE, TRUE)
    /\ hooks.stats.window_changes = 1
    /\ hooks.stats.total_events = 1
    /\ hooks.stats.dropped_events = 0
    /\ enq_log = << MkEvent("EVENT_ERROR", FALSE, 0) >>
    /\ ret

---------------------------------------------------------------------------
(* The formatter of capture.c                                              *)

\* format_event_entry(event, buffer, size) for a key event, at a moment whose
\* timestamp is ts.
FormatEventEntry(k, ts) ==
    /\ fmt' = [key |-> k, timestamp |-> ts,
               text |-> format_event_entry_text(ts, k), done |-> TRUE]
    /\ UNCHANGED <<hooks, hooks_active, last_error, buffer, logger, file_bytes,
                   handed, enq_log, delivered, calls, ret, thr, main_pc, running,
                   capture, cfile, op, lk, stk, accepted, wf, renamed, timer>>

NextFormat == \E k \in KeyInputs, ts \in Timestamps : FormatEventEntry(k, ts)

SpecFormat == Init /\ [][NextFormat]_vars

\* The text of a line after its "[timestamp] ".
AfterPrefix(text, ts) == SubSeq(text, Len(ts) + 4, Len(text))

UpperHex ==
    {"0", "1", "2", "3", "4", "5", "6", "7", "8", "9", "A", "B", "C", "D", "E", "F"}

\* The number a text of upper-case hexadecimal digits writes.
RECURSIVE HexValue(_)
HexValue(d) ==
    IF d = <<>> THEN 0
    ELSE 16 * HexValue(SubSeq(d, 1, Len(d) - 1))
         + (CHOOSE v \in 0..15 : HexDigits[v + 1] = d[Len(d)])

\* The tags the claim asks for: ALT, CTRL, SHIFT, WIN in that order, each
\* there when its flag is set.
ExpectedTags(k) ==
    (IF k.alt THEN << " ", "A", "L", "T" >> ELSE <<>>)
    \o (IF k.control THEN << " ", "C", "T", "R", "L" >> ELSE <<>>)
    \o (IF k.shift THEN << " ", "S", "H", "I", "F", "T" >> ELSE <<>>)
    \o (IF k.win THEN << " ", "W", "I", "N" >> ELSE <<>>)

\* What C23 asks of the line, the word KEY DOWN or KEY UP being w.
KeyLineOk(line, k, w) ==
    /\ SubSeq(line, 1, Len(w)) = w
    /\ SubSeq(line, Len(w) + 1, Len(w) + 6) = << " ", "V", "K", ":", "0", "x" >>
    /\ \A i \in (Len(w) + 7)..(Len(w) + 10) : line[i] \in UpperHex
    /\ HexValue(SubSeq(line, Len(w) + 7, Len(w) + 10)) = k.vkCode
    /\ SubSeq(line, Len(w) + 11, Len(w) + 16) = << " ", "S", "C", ":", "0", "x" >>
    /\ \A i \in (Len(w) + 17)..(Len(w) + 20) : line[i] \in UpperHex
    /\ HexValue(SubSeq(line, Len(w) + 17, Len(w) + 20)) = k.scanCode
    /\ SubSeq(line, Len(w) + 21, Len(line)) = ExpectedTags(k)

\* C23: the line format_event_entry writes for a key event is, after the
\* timestamp prefix, KEY DOWN for a press and KEY UP for a release, VK: and
\* SC: with 0x and four upper-case hexadecimal digits that write vkCode and
\* scanCode, then the tags ALT, CTRL, SHIFT, WIN in this order, each there iff
\* its flag is set; vkCode 0x41, scanCode 0x1E and alt alone give
\* KEY DOWN VK:0x0041 SC:0x001E ALT; the text after the prefix does not depend
\* on the timestamp.
C23_KeyLine ==
    fmt.done =>
        /\ fmt.text[Len(fmt.text)] = "\n"
        /\ KeyLineOk(SubSeq(AfterPrefix(fmt.text, fmt.timestamp), 1,
                            Len(AfterPrefix(fmt.text, fmt.timestamp)) - 1),
                     fmt.key,
                     IF fmt.key.type = "EVENT_KEY_PRESS"
                     THEN << "K", "E", "Y", " ", "D", "O", "W", "N" >>
                     ELSE << "K", "E", "Y", " ", "U", "P" >>)
        /\ fmt.key = MkKey("EVENT_KEY_PRESS", 65, 30, TRUE, FALSE, FALSE, FALSE)
           => AfterPrefix(fmt.text, fmt.timestamp) =
                 << "K", "E", "Y", " ", "D", "O", "W", "N", " ",
                    "V", "K", ":", "0", "x", "0", "0", "4", "1", " ",
                    "S", "C", ":", "0", "x", "0", "0", "1", "E", " ",
                    "A", "L", "T", "\n" >>
        /\ \A ts \in Timestamps :
              AfterPrefix(format_event_entry_text(ts, fmt.key), ts)
                 = AfterPrefix(fmt.text, fmt.timestamp)

\* A release with control and win set was formatted under a timestamp.
C23_Witness ==
    /\ fmt.done
    /\ fmt.key = MkKey("EVENT_KEY_RELEASE", 254, 65535, FALSE, TRUE, FALSE, TRUE)
    /\ fmt.timestamp # <<>>
    /\ Len(fmt.text) = 62

---------------------------------------------------------------------------
(* What a flush hands to the log writer                                    *)

\* C24: the bytes staged are the payloads add_to_buffer took since the last
\* successful flush or clear, in the order they were taken; a successful
\* force_flush_buffer (called directly, by flush_buffer_if_needed or by
\* add_to_buffer on a full buffer) hands exactly these bytes to the log writer
\* in one write_to_log call and leaves nothing staged, so that the bytes of
\* successive successful flushes are the bytes taken, each once.
C24_FlushHandsAccepted ==
    [][/\ buffer'.initialized => Staged(buffer') = accepted'
       /\ \A io \in SomeIo :
            ((ForceFlushBuffer(io) \/ FlushBufferIfNeeded(io)) /\ ret')
            => /\ handed' = accepted
               /\ buffer'.size = 0
               /\ logger'.stats.total_writes = logger.stats.total_writes + 1
       /\ \A data \in BufDataInputs, io \in SomeIo :
            (AddToBuffer(data, io) /\ FlushedOk(buffer, buffer'))
            => /\ handed' = accepted
               /\ logger'.stats.total_writes = logger.stats.total_writes + 1
               /\ Staged(buffer') = IF ret' THEN data.bytes ELSE <<>>]_vars

\* Two different payloads were taken and one flush handed both, in order, to
\* the writer; a third payload is staged since.
C24_Witness ==
    /\ buffer.stats.total_flushes = 1
    /\ buffer.stats.failed_flushes = 0
    /\ logger.stats.total_writes = 1
    /\ handed = <<75, 65, NL, 77, 1, 1, 1>>
    /\ accepted = <<75, 65, NL>>
    /\ buffer.size = 3

---------------------------------------------------------------------------
(* The log writer alone: whole write_to_log calls and their WriteFile calls *)

\* Arguments of write_to_log: those of WtlDataInputs and a lone newline.
WriteDataInputs == WtlDataInputs \cup {MkData(<<NL>>)}

\* write_to_log (logger.c:137-154), by one thread, under every behaviour of
\* localtime_s and WriteFile.
WriteToLog(data, io) ==
    /\ calls < MaxWriteCalls
    /\ calls' = calls + 1
    /\ \E r \in {write_to_log(TheWorld, data, io)} :
       /\ logger' = r.w.logger
       /\ file_bytes' = r.w.file_bytes
       /\ handed' = r.w.handed
       /\ wf' = r.w.wf
       /\ ret' = r.ret
    /\ UNCHANGED <<hooks, hooks_active, last_error, enq_log, delivered, buffer,
                   thr, main_pc, running, capture, cfile, op, lk, stk, fmt, accepted, renamed, timer>>

NextWrite ==
    \/ \E env \in SomeLogEnvs : OpenLogger(env)
    \/ CloseLogger
    \/ \E data \in WriteDataInputs, io \in IoInputs : WriteToLog(data, io)

SpecWrite == Init /\ [][NextWrite]_vars

\* A step that is a write_to_log call: under SpecWrite, the steps that count a
\* call.
Wrote == calls' = calls + 1

\* The WriteFile calls of the last logical write that were given the bytes d.
CallsWith(d) == {i \in 1..Len(wf) : wf[i].data = d}

\* The calls that failed.
FailedCalls == {i \in 1..Len(wf) : ~wf[i].ok}

\* C25: in one write_to_log call no part (the bytes of one physical write) is
\* given to WriteFile more than LOG_MAX_WRITE_RETRIES times, no call for a part
\* follows a successful call for it, a failed call that is not the part's
\* last allowed one is followed by another for the same part, the call makes
\* at most 3 * LOG_MAX_WRITE_RETRIES = 9 WriteFile calls, and retry_count
\* grows by the number of failed calls.
C25_BoundedRetries ==
    [][Wrote
        => /\ Len(wf') <= 3 * LOG_MAX_WRITE_RETRIES
           /\ \A i \in 1..Len(wf') :
                /\ Cardinality({j \in 1..Len(wf') : wf'[j].data = wf'[i].data})
                       <= LOG_MAX_WRITE_RETRIES
                /\ wf'[i].ok => \A j \in (i + 1)..Len(wf') : wf'[j].data # wf'[i].data
                /\ (~wf'[i].ok /\ Cardinality({j \in 1..i : wf'[j].data = wf'[i].data})
                                     < LOG_MAX_WRITE_RETRIES)
                   => i < Len(wf') /\ wf'[i + 1].data = wf'[i].data
           /\ logger'.stats.retry_count
                  = logger.stats.retry_count
                    + Cardinality({i \in 1..Len(wf') : ~wf'[i].ok})]_vars

\* A logical write of three parts in which every part succeeded at its third
\* attempt: nine WriteFile calls, six of them failed.
C25_Witness ==
    /\ ret
    /\ Len(wf) = 3 * LOG_MAX_WRITE_RETRIES
    /\ Cardinality(FailedCalls) = 6
    /\ logger.stats.retry_count = 6
    /\ logger.stats.total_writes = 1
    /\ \A i \in {3, 6, 9} : wf[i].ok


\* The write_to_log call that hands over the bytes b passes the argument, the
\* state and the size check with the logger l, and so reaches
\* write_with_timestamp.
Accepted(l, b) ==
    /\ ~BadLogArgs(MkData(b))
    /\ validate_logger_state(l).ret
    /\ check_file_size(l, Len(b) + LOG_TIMESTAMP_SIZE + 1).ret

\* The bytes the successful calls of w put into the file.
RECURSIVE BytesWritten(_)
BytesWritten(w) ==
    IF w = <<>> THEN 0
    ELSE (IF Head(w).ok THEN Len(Head(w).data) ELSE 0) + BytesWritten(Tail(w))

\* Some part of w failed LOG_MAX_WRITE_RETRIES times.
Exhausted(w) ==
    \E i \in 1..Len(w) :
        Cardinality({j \in 1..Len(w) : w[j].data = w[i].data /\ ~w[j].ok})
            = LOG_MAX_WRITE_RETRIES

\* What a logical write that returned true did to the counters.
CountedDone(l, m, n) ==
    /\ m.stats.total_writes = l.stats.total_writes + 1
    /\ m.stats.failed_writes = l.stats.failed_writes
    /\ m.stats.bytes_written = l.stats.bytes_written + n
    /\ m.current_file_size = l.current_file_size + n

\* What one that exhausted the retries of a part did to them.
CountedFailed(l, m) ==
    /\ m.stats.total_writes = l.stats.total_writes
    /\ m.stats.failed_writes = l.stats.failed_writes + 1
    /\ m.stats.bytes_written = l.stats.bytes_written
    /\ m.current_file_size = l.current_file_size
    /\ m.last_error = LOG_ERROR_WRITE

\* C26 as stated: a write_to_log call that reaches write_with_timestamp returns
\* false iff one of its parts exhausted its retries, and then failed_writes
\* grows by one, total_writes, bytes_written and current_file_size stay, the
\* exhausting call is the last one made and the bytes already written stay in
\* the file; when it returns true total_writes grows by one and bytes_written
\* and current_file_size by the bytes written.
C26_FailsIffExhausted ==
    [][(Wrote /\ Accepted(logger, handed'))
        => /\ ~ret' <=> Exhausted(wf')
           /\ ~ret' => /\ CountedFailed(logger, logger')
                       /\ ~wf'[Len(wf')].ok
                       /\ file_bytes' = file_bytes + BytesWritten(wf')
           /\ ret' => /\ CountedDone(logger, logger', BytesWritten(wf'))
                      /\ file_bytes' = file_bytes + BytesWritten(wf')]_vars

\* C26 amended: the same, except that the call also returns false when
\* format_timestamp fails; it has then made no WriteFile call, set
\* LOG_ERROR_WRITE, and left every counter, failed_writes included, and the
\* file as they were.
C26_WriteOutcome ==
    [][(Wrote /\ Accepted(logger, handed'))
        => /\ ~ret' <=> (Exhausted(wf') \/ wf' = <<>>)
           /\ Exhausted(wf')
              => /\ CountedFailed(logger, logger')
                 /\ ~wf'[Len(wf')].ok
                 /\ file_bytes' = file_bytes + BytesWritten(wf')
           /\ wf' = <<>>
              => /\ logger' = [logger EXCEPT !.last_error = LOG_ERROR_WRITE]
                 /\ file_bytes' = file_bytes
           /\ ret' => /\ CountedDone(logger, logger', BytesWritten(wf'))
                      /\ file_bytes' = file_bytes + BytesWritten(wf')]_vars

\* After one successful write, a write whose timestamp went out and whose
\* payload failed three times: it is counted failed, the timestamp stays in the
\* file and is not in current_file_size.
C26_Witness ==
    /\ ~ret
    /\ Len(wf) = 1 + LOG_MAX_WRITE_RETRIES
    /\ wf[1] = WriteFile(Timestamp, TRUE)
    /\ \A i \in 2..Len(wf) : wf[i] = WriteFile(handed, FALSE)
    /\ logger.stats.failed_writes = 1
    /\ logger.stats.total_writes = 1
    /\ logger.stats.retry_count = LOG_MAX_WRITE_RETRIES
    /\ file_bytes = LOG_MAX_FILE_SIZE - MaxHeadroom
                    + logger.stats.bytes_written + TIMESTAMP_LEN
    /\ logger.current_file_size = file_bytes - TIMESTAMP_LEN


\* The parts of the logical write of the payload b, in the order of
\* logger.c:193-217.
PartsOf(b) ==
    <<Timestamp, b>> \o (IF b[Len(b)] # NL THEN << <<NL>> >> ELSE <<>>)

\* The bytes the successful calls of w were given, call by call.
RECURSIVE Emitted(_)
Emitted(w) ==
    IF w = <<>> THEN <<>>
    ELSE (IF Head(w).ok THEN <<Head(w).data>> ELSE <<>>) \o Emitted(Tail(w))

\* C27: in a write_to_log call that reaches write_with_timestamp every
\* WriteFile call is given the part that follows the parts already written, in
\* the order timestamp, payload, newline, the newline being a part iff the
\* payload does not end in one; the call returns true iff all parts were
\* written, and the file then grew by exactly these parts.
C27_PartsInOrder ==
    [][(Wrote /\ Accepted(logger, handed'))
        => /\ \A i \in 1..Len(wf') :
                LET k == Len(Emitted(SubSeq(wf', 1, i - 1))) IN
                k < Len(PartsOf(handed')) /\ wf'[i].data = PartsOf(handed')[k + 1]
           /\ ret' <=> Emitted(wf') = PartsOf(handed')
           /\ ret' => file_bytes' = file_bytes + TIMESTAMP_LEN + Len(handed')
                                    + (IF handed'[Len(handed')] # NL THEN 1 ELSE 0)]_vars

\* A payload without a newline went out as timestamp, payload, newline, and
\* after it one that ends in a newline as timestamp and payload only.
C27_Witness ==
    /\ ret
    /\ handed = <<75, 65, NL>>
    /\ wf = <<WriteFile(Timestamp, TRUE), WriteFile(handed, TRUE)>>
    /\ logger.stats.total_writes = 2
    /\ logger.stats.bytes_written = (TIMESTAMP_LEN + 7 + 1) + (TIMESTAMP_LEN + 3)

---------------------------------------------------------------------------
(* Handing over and overwriting                                            *)

\* A step of a hook procedure or of check_active_window: a queue_event call.
Enqueues ==
    \/ \E e \in EventInputs : QueueEvent(e)
    \/ \E fg \in Windows : CheckActiveWindow(fg)

\* C28: a process_queued_event call either leaves queue_head and the events
\* handed over as they are, or hands the event in the slot at queue_head to
\* the callback, once, and moves queue_head to the next slot (mod
\* MAX_EVENT_QUEUE), the callback's work being done when the call returns; a
\* queue_event call leaves queue_head, the events handed over and every event
\* not yet handed over in place; and the events handed over and the events
\* waiting are together as many as the events stored, so none is handed over
\* twice.
C28_HandedOnce ==
    [][/\ ProcessQueuedEvent(NoFails)
          => \/ /\ hooks'.queue_head = hooks.queue_head
                /\ delivered' = delivered
                /\ ~ret'
             \/ /\ hooks'.queue_head = (hooks.queue_head + 1) % MAX_EVENT_QUEUE
                /\ hooks.queue_head # hooks.queue_tail
                /\ delivered' = Append(delivered, hooks.queue[hooks.queue_head])
                /\ \E w \in {RunCallback(hooks.callback, TheWorld,
                                          hooks.queue[hooks.queue_head], NoFails)} :
                      /\ buffer' = w.buffer
                      /\ logger' = w.logger
                      /\ file_bytes' = w.file_bytes
                      /\ handed' = w.handed
                /\ hooks'.queue_tail = hooks.queue_tail
                /\ hooks'.queue = hooks.queue
                /\ ret'
       /\ Enqueues
          => /\ hooks'.queue_head = hooks.queue_head
             /\ delivered' = delivered
             /\ \A i \in 1..get_queue_size(hooks) :
                    RingContents(hooks')[i] = RingContents(hooks)[i]
             /\ get_queue_size(hooks') \in {get_queue_size(hooks),
                                            get_queue_size(hooks) + 1}
       /\ Len(delivered') + get_queue_size(hooks') = Len(enq_log')]_vars

\* The ring was full, its oldest event was handed over, and the slot it left
\* was taken by a later event while the second event still waits.
C28_Witness ==
    /\ Len(delivered) = 1
    /\ Len(enq_log) = 3
    /\ delivered[1] = enq_log[1]
    /\ RingContents(hooks) = <<enq_log[2], enq_log[3]>>
    /\ enq_log[1] # enq_log[2]
    /\ enq_log[3] # enq_log[1]
    /\ hooks.queue_head = 1
    /\ hooks.queue_tail = 0


\* The events stored and not yet handed over or discarded.
EventsWaiting == Len(enq_log) - Len(delivered)

\* C29: queue_head and queue_tail are indices of the ring; what get_queue_size
\* returns is (tail - head) mod MAX_EVENT_QUEUE, is the number of events
\* waiting and is at most MAX_EVENT_QUEUE - 1; is_queue_empty returns true iff
\* head = tail, iff no event waits; is_queue_full returns true iff
\* (tail + 1) mod MAX_EVENT_QUEUE = head, iff MAX_EVENT_QUEUE - 1 events wait.
C29_RingBounds ==
    /\ hooks.queue_head \in 0..(MAX_EVENT_QUEUE - 1)
    /\ hooks.queue_tail \in 0..(MAX_EVENT_QUEUE - 1)
    /\ get_queue_size(hooks) = (hooks.queue_tail - hooks.queue_head) % MAX_EVENT_QUEUE
    /\ get_queue_size(hooks) = EventsWaiting
    /\ get_queue_size(hooks) <= MAX_EVENT_QUEUE - 1
    /\ is_queue_empty(hooks) <=> hooks.queue_head = hooks.queue_tail
    /\ is_queue_empty(hooks) <=> EventsWaiting = 0
    /\ is_queue_full(hooks) <=> (hooks.queue_tail + 1) % MAX_EVENT_QUEUE = hooks.queue_head
    /\ is_queue_full(hooks) <=> EventsWaiting = MAX_EVENT_QUEUE - 1

\* A full ring whose tail has wrapped behind its head.
C29_Witness ==
    /\ hooks_active
    /\ is_queue_full(hooks)
    /\ ~is_queue_empty(hooks)
    /\ hooks.queue_tail < hooks.queue_head
    /\ get_queue_size(hooks) = MAX_EVENT_QUEUE - 1
    /\ EventsWaiting = MAX_EVENT_QUEUE - 1

---------------------------------------------------------------------------
(* Arguments add_to_buffer refuses                                         *)

\* C30: an add_to_buffer call with a null pointer, a size of zero or a size
\* above BUFFER_MAX_EVENT_SIZE returns false and changes nothing but the
\* buffer's last error, which becomes BUFFER_ERROR_INVALID: the size, the
\* bytes and the four counters stay, and no flush is made (nothing reaches
\* the log writer), whatever room the buffer has and whether or not it is
\* initialised.
C30_BadArgsRefused ==
    [][\A data \in BufDataInputs, io \in SomeIo :
        (/\ AddToBuffer(data, io)
         /\ data.null \/ Len(data.bytes) = 0 \/ Len(data.bytes) > BUFFER_MAX_EVENT_SIZE)
        => /\ ~ret'
           /\ buffer'.last_error = BUFFER_ERROR_INVALID
           /\ buffer'.size = buffer.size
           /\ buffer'.data = buffer.data
           /\ buffer'.stats = buffer.stats
           /\ buffer' = [buffer EXCEPT !.last_error = BUFFER_ERROR_INVALID]
           /\ logger' = logger
           /\ file_bytes' = file_bytes
           /\ handed' = handed
           /\ accepted' = accepted]_vars

\* A buffer filled to its capacity, never flushed, has just refused a call.
C30_Witness ==
    /\ buffer.initialized
    /\ buffer.size = buffer.capacity
    /\ buffer.capacity = BUFFER_SIZE
    /\ buffer.stats.total_writes = 3
    /\ buffer.stats.failed_writes = 0
    /\ buffer.stats.total_flushes = 0
    /\ buffer.last_error = BUFFER_ERROR_INVALID
    /\ ~ret

---------------------------------------------------------------------------
(* An append that finds the buffer too full                                *)

\* C31: an add_to_buffer call with good arguments, on a valid buffer in which
\* size + len > capacity, calls force_flush_buffer, which hands the staged
\* bytes to the log writer.  If that write fails the call returns false,
\* failed_writes grows by one and the size and the staged bytes stay; if it
\* succeeds the payload is copied to the start of the emptied buffer, the size
\* is len, total_writes has grown by one and the call returns true.
C31_FlushThenAppend ==
    [][\A data \in BufDataInputs, io \in SomeIo :
        (/\ AddToBuffer(data, io)
         /\ ~data.null /\ Len(data.bytes) \in 1..BUFFER_MAX_EVENT_SIZE
         /\ buffer.initialized /\ buffer.capacity > 0
         /\ buffer.size + Len(data.bytes) > buffer.capacity)
        => /\ buffer'.stats.total_flushes = buffer.stats.total_flushes + 1
           /\ handed' = Staged(buffer)
           /\ IF logger'.stats.total_writes = logger.stats.total_writes + 1
              THEN /\ ret'
                   /\ buffer'.size = Len(data.bytes)
                   /\ Staged(buffer') = data.bytes
                   /\ buffer'.stats.total_writes = buffer.stats.total_writes + 1
                   /\ buffer'.stats.failed_writes = buffer.stats.failed_writes
                   /\ buffer'.stats.failed_flushes = buffer.stats.failed_flushes
              ELSE /\ ~ret'
                   /\ buffer'.size = buffer.size
                   /\ Staged(buffer') = Staged(buffer)
                   /\ buffer'.stats.total_writes = buffer.stats.total_writes
                   /\ buffer'.stats.failed_writes = buffer.stats.failed_writes + 1
                   /\ buffer'.stats.failed_flushes = buffer.stats.failed_flushes + 1
                   /\ logger'.stats.total_writes = logger.stats.total_writes]_vars

\* An append to a full buffer failed with its flush, and the next one flushed
\* the twelve bytes and was stored alone.
C31_Witness ==
    /\ ret
    /\ buffer.stats.total_flushes = 2
    /\ buffer.stats.failed_flushes = 1
    /\ buffer.stats.failed_writes = 1
    /\ buffer.stats.total_writes = 4
    /\ buffer.size = 4
    /\ Len(handed) = BUFFER_SIZE
    /\ logger.stats.total_writes = 1

---------------------------------------------------------------------------
(* The controller's staging buffer                                         *)

\* C32: after every step the controller's buffer_size is at most
\* buffer_capacity and counts the bytes staged.  A buffer_event_entry call
\* with an entry and a buffer appends the entry when buffer_size + len is
\* below the capacity; otherwise it flushes first, and then either the flush
\* wrote the staged bytes to the file and the entry is staged alone, or the
\* flush failed, the call returns false and the staged bytes are as before.
C32_StagedWithinCapacity ==
    [][/\ capture'.buffer_size <= capture'.buffer_capacity
       /\ capture'.buffer_size = Len(capture'.staged)
       /\ \A entry \in EntryInputs, wr_ok \in BOOLEAN :
            (BufferEventEntry(entry, wr_ok) /\ ~entry.null /\ ~capture.buffer_null)
            => IF capture.buffer_size + Len(entry.bytes) < capture.buffer_capacity
               THEN /\ ret'
                    /\ capture'.staged = capture.staged \o entry.bytes
                    /\ cfile' = cfile
               ELSE \/ /\ ret'
                       /\ capture'.staged = entry.bytes
                       /\ cfile' = cfile + capture.buffer_size
                    \/ /\ ~ret'
                       /\ capture'.staged = capture.staged
                       /\ cfile' = cfile]_vars

\* An entry met a buffer it would fill, the flush failed, and nothing was
\* stored: the three bytes staged before are still there.
C32_Witness ==
    /\ op[2] = "buffer_event_entry"
    /\ ~ret
    /\ capture.stats.buffer_overflows = 1
    /\ capture.stats.write_errors = 1
    /\ capture.stats.events_buffered = 1
    /\ capture.buffer_size = 3
    /\ capture.buffer_capacity = CAPTURE_BUFFER_SIZE
    /\ cfile = 0

---------------------------------------------------------------------------
(* Stopping an active capture                                              *)

\* C33: a stop_capture call made while capture.active holds leaves the
\* controller's callback unregistered and active false.  When bytes are staged
\* and the file is open it writes them: if fwrite takes them all they are in
\* the file and buffer_size is 0, if not they stay staged, the file is as
\* before and write_errors has grown by one.  When nothing is staged nothing
\* is written.
C33_StopFlushes ==
    [][\A wr_ok \in BOOLEAN :
        (StopCapture(wr_ok) /\ capture.active)
        => /\ ~capture'.active
           /\ hooks'.callback # "capture_event_callback"
           /\ capture'.initialized = capture.initialized
           /\ (capture.buffer_size > 0 /\ capture.log_file = "OPEN")
              => IF wr_ok
                 THEN /\ capture'.buffer_size = 0
                      /\ capture'.staged = <<>>
                      /\ cfile' = cfile + capture.buffer_size
                      /\ capture'.stats.write_errors = capture.stats.write_errors
                      /\ capture'.stats.bytes_written
                           = capture.stats.bytes_written + capture.buffer_size
                 ELSE /\ capture'.buffer_size = capture.buffer_size
                      /\ capture'.staged = capture.staged
                      /\ cfile' = cfile
                      /\ capture'.stats.write_errors = capture.stats.write_errors + 1
           /\ capture.buffer_size = 0
              => (cfile' = cfile /\ capture'.stats = capture.stats)]_vars

\* A capture with one entry staged was stopped and its three bytes went to
\* the file.
C33_Witness ==
    /\ op[2] = "stop_capture"
    /\ capture.initialized
    /\ ~capture.active
    /\ hooks.callback = "NULL"
    /\ capture.buffer_size = 0
    /\ capture.stats.events_buffered = 1
    /\ capture.stats.bytes_written = 3
    /\ capture.stats.write_errors = 0
    /\ cfile = 3

---------------------------------------------------------------------------
(* Rotation of the capture log file                                        *)

\* name is path, a dot, and a time as YYYYMMDD_HHMMSS.
RotatedNameOf(name, path) ==
    /\ Len(name) = Len(path) + 16
    /\ SubSeq(name, 1, Len(path)) = path
    /\ name[Len(path) + 1] = "."
    /\ name[Len(path) + 10] = "_"
    /\ \A i \in (1..8) \cup (10..15) :
         \E d \in 1..10 : name[Len(path) + 1 + i] = DecDigits[d]

\* C34: rotate_log_file runs only with rotate_logs set and the file at
\* max_file_size or above.  When rename succeeds the file has been closed and
\* renamed to its path followed by '.' and YYYYMMDD_HHMMSS, files_rotated has
\* grown by one and the path names a new, empty file, which is open when fopen
\* succeeded.  When rename fails files_rotated and the name stay.  No other
\* call than init_capture changes files_rotated, and with rotate_logs false
\* should_rotate_log is false and rotate_log_file changes nothing.
C34_Rotation ==
    [][/\ \A env \in RotateEnvs :
            RotateLogFile(env)
            => /\ capture.config.rotate_logs
               /\ cfile >= capture.config.max_file_size
               /\ IF env.rename_ok
                  THEN /\ capture'.stats.files_rotated
                            = capture.stats.files_rotated + 1
                       /\ RotatedNameOf(renamed', old_path)
                       /\ cfile' = 0
                       /\ capture'.log_file = IF env.open_ok THEN "OPEN" ELSE "NULL"
                       /\ ret' = env.open_ok
                  ELSE /\ capture'.stats.files_rotated = capture.stats.files_rotated
                       /\ renamed' = renamed
                       /\ cfile' = cfile
                       /\ ~ret'
       /\ (capture'.stats.files_rotated # capture.stats.files_rotated
           \/ renamed' # renamed)
          => \/ op'[2] = "init_capture" /\ renamed' = renamed
             \/ /\ op'[2] = "rotate_log_file"
                /\ capture.config.rotate_logs
                /\ capture'.stats.files_rotated = capture.stats.files_rotated + 1
       /\ ~capture.config.rotate_logs
          => /\ ~should_rotate_log(capture, cfile)
             /\ \A env \in RotateEnvs :
                  rotate_log_file(capture, cfile, env)
                    = [c |-> capture, f |-> cfile, ret |-> FALSE]
       /\ new_path(MkTime(2024, 1, 5, 3, 4, 9))
            = << "l", "o", "g", "s", "/", "k", "e", "y", "l", "o", "g", ".", "t",
                 "x", "t", ".", "2", "0", "2", "4", "0", "1", "0", "5", "_", "0",
                 "3", "0", "4", "0", "9" >>]_vars

\* The file reached max_file_size, was renamed with the time of the rotation
\* and a new file is open at the path.
C34_Witness ==
    /\ op[2] = "rotate_log_file"
    /\ ret
    /\ capture.stats.files_rotated = 1
    /\ capture.log_file = "OPEN"
    /\ capture.config.rotate_logs
    /\ cfile = 0
    /\ capture.stats.bytes_written >= capture.config.max_file_size
    /\ renamed = new_path(MkTime(1999, 12, 31, 23, 59, 59))

---------------------------------------------------------------------------
(* The flush timer (capture.c:449-459)                                     *)

CaptureModes == {"CAPTURE_MODE_NORMAL", "CAPTURE_MODE_STEALTH", "CAPTURE_MODE_DEBUG"}

\* The flush intervals of the model; validate_config turns 0 away.
FlushIntervals == {1, 3, TickModulus - 1}

SameButTimer ==
    UNCHANGED <<hooks, hooks_active, last_error, buffer, logger, file_bytes, handed,
                enq_log, delivered, calls, ret, thr, main_pc, running, capture, cfile,
                op, lk, stk, fmt, accepted, wf, renamed>>

\* d milliseconds pass.
TimePasses(d) ==
    /\ timer.ms + d <= MaxTick
    /\ timer' = [timer EXCEPT !.ms = @ + d, !.asked = FALSE]
    /\ SameButTimer

\* init_capture or set_capture_config gives a mode and a flush interval.
SetTimerConfig(mode, interval) ==
    /\ timer' = [timer EXCEPT !.mode = mode, !.flush_interval = interval,
                              !.asked = FALSE]
    /\ SameButTimer

\* start_capture (line 216), flush_buffer_to_file (line 428) and the callback
\* (line 76) set last_flush to the tick count.
UpdateFlushTimer ==
    /\ timer' = [update_flush_timer(timer) EXCEPT !.asked = FALSE]
    /\ SameButTimer

\* The callback asks should_flush (lines 64, 75).
ShouldFlush ==
    /\ timer' = [timer EXCEPT !.asked = TRUE, !.said = should_flush(timer)]
    /\ SameButTimer

NextTimer ==
    \/ \E d \in {1, 2, 5} : TimePasses(d)
    \/ \E mode \in CaptureModes, interval \in FlushIntervals : SetTimerConfig(mode, interval)
    \/ UpdateFlushTimer
    \/ ShouldFlush

SpecTimer == Init /\ [][NextTimer]_vars

\* C35: what should_flush returned is true in Debug mode, and in the other
\* modes it is true iff (now - last_flush) mod 2^32 >= flush_interval; so,
\* less than 2^32 ms having passed since last_flush was set, it is true iff at
\* least flush_interval ms have passed, whether or not the tick count wrapped
\* in between.
C35_ShouldFlush ==
    timer.asked
    => /\ timer.mode = "CAPTURE_MODE_DEBUG" => timer.said
       /\ timer.mode # "CAPTURE_MODE_DEBUG"
          => /\ timer.said <=> (GetTickCount(timer.ms) - timer.last_flush) % TickModulus
                                   >= timer.flush_interval
             /\ timer.ms - timer.flushed_at < TickModulus
                => (timer.said <=> timer.ms - timer.flushed_at >= timer.flush_interval)

\* The tick count wrapped between the flush and the question (now is below
\* last_flush), three milliseconds had passed, and should_flush said yes.
C35_Witness ==
    /\ timer.asked
    /\ timer.said
    /\ timer.mode = "CAPTURE_MODE_NORMAL"
    /\ timer.flush_interval = 3
    /\ timer.last_flush = TickModulus - 1
    /\ GetTickCount(timer.ms) = 2
    /\ timer.ms - timer.flushed_at = 3

---------------------------------------------------------------------------
(* The life cycle of the capture controller                                *)

\* C36: after every call the controller is initialized if it is active; a
\* start_capture call that returns true was made on an initialized, inactive
\* controller and leaves it initialized and active; and only such a call
\* makes an inactive controller active.
C36_ActiveIsInitialized ==
    [][/\ capture'.active => capture'.initialized
       /\ (StartCapture /\ ret')
          => /\ capture.initialized /\ ~capture.active
             /\ capture'.initialized /\ capture'.active
       /\ (StartCapture /\ ~(capture.initialized /\ ~capture.active))
          => /\ ~ret'
             /\ capture'.active = capture.active
             /\ capture'.initialized = capture.initialized
       /\ (~capture.active /\ capture'.active)
          => (op'[2] = "start_capture" /\ ret')]_vars

\* A controller that was started, cleaned up and initialised again has been
\* started again.
C36_Witness ==
    /\ capture.active
    /\ capture.initialized
    /\ op = <<"init_capture", "start_capture">>
    /\ ret
    /\ calls = 5
    /\ hooks.callback = "capture_event_callback"


---------------------------------------------------------------------------
(* The queue's statistics                                                  *)

\* total_events less the events handed to the callback and the events in the
\* ring.
Unaccounted(h, dl) == h.stats.total_events - (Len(dl) + get_queue_size(h))

\* total_events + dropped_events
Attempted(h) == h.stats.total_events + h.stats.dropped_events

\* An init_hooks call that gets past its first test.
InitHooksResets == InitHooks("event_callback", HooksInstall) /\ ~hooks_active

\* An event queue_event neither refuses for hooks_active nor filters out.
Unfiltered(e) == hooks_active /\ should_process_event(hooks.filters, e)

\* C37: queue_overflows equals dropped_events in every state; init_hooks
\* starts total_events, dropped_events, the events handed over and the ring
\* at zero; from then on, until a clear_event_queue call, every step keeps
\* total_events equal to the events handed to the callback plus the events in
\* the ring; and total_events + dropped_events grows by one with every
\* queue_event call on an event that passes the filters while the hooks are
\* active, and with no other step.
C37_QueueStatistics ==
    [][/\ hooks'.stats.queue_overflows = hooks'.stats.dropped_events
       /\ InitHooksResets
          => /\ Attempted(hooks') = 0
             /\ Unaccounted(hooks', delivered') = 0
             /\ Len(delivered') = 0
             /\ get_queue_size(hooks') = 0
       /\ (~ClearEventQueue /\ Unaccounted(hooks, delivered) = 0)
          => Unaccounted(hooks', delivered') = 0
       /\ \A e \in EventInputs :
            QueueEvent(e)
            => Attempted(hooks') = Attempted(hooks) + (IF Unfiltered(e) THEN 1 ELSE 0)
       /\ \A fg \in Windows :
            CheckActiveWindow(fg)
            => Attempted(hooks')
               = Attempted(hooks)
                 + (IF /\ fg # 0
                       /\ fg # hooks.activeWindow
                       /\ Unfiltered(MkEvent("EVENT_WINDOW_CHANGE", FALSE, fg))
                    THEN 1 ELSE 0)
       /\ (~Enqueues /\ ~InitHooksResets)
          => Attempted(hooks') = Attempted(hooks)]_vars

\* Two events were stored, a third was refused by the full ring, and one of
\* the two has been handed to the callback: no clear_event_queue call was made.
C37_Witness ==
    /\ hooks_active
    /\ hooks.stats.total_events = 2
    /\ hooks.stats.dropped_events = 1
    /\ hooks.stats.queue_overflows = 1
    /\ Len(delivered) = 1
    /\ get_queue_size(hooks) = 1
    /\ Len(enq_log) = 2
    /\ calls = 3


---------------------------------------------------------------------------
(* The tracked size and the file                                           *)

\* C38: while the log writer is open, current_file_size is the size of the
\* file, the size read at open plus every byte WriteFile has put into it
\* since, and the file is no larger than LOG_MAX_FILE_SIZE.
C38_TrackedSizeIsFileSize ==
    logger.initialized
    => /\ logger.current_file_size = file_bytes
       /\ file_bytes <= LOG_MAX_FILE_SIZE


---------------------------------------------------------------------------
(* write_to_log against cleanup_logger                                     *)

\* Thread t takes the step at the top of its stack.
Steps(t) == InCall(t) /\ stk'[t] # stk[t]

\* C39: whatever another thread does in between, a thread whose write_to_log
\* passed validate_logger_state enters logger.lock in write_with_timestamp
\* only while that critical section exists, and its WriteFile calls are made
\* on the open handle: the body of write_with_timestamp either runs against
\* the open file or makes no WriteFile call at all.
C39_NoWriteOnClosedLogger ==
    [][\A t \in Threads :
         /\ (/\ At(t, "enter")
             /\ Top(t).fn = "write_with_timestamp"
             /\ Steps(t))
            => lk["logger.lock"].state = "init"
         /\ (/\ At(t, "do")
             /\ Operand(t) = "wwt_body"
             /\ Steps(t))
            => \/ logger.initialized /\ logger.file_handle = "OPEN"
               \/ logger'.stats.retry_count = logger.stats.retry_count]_vars


---------------------------------------------------------------------------
(* Shutdown of the main pipeline                                           *)

\* C40: when main takes the pipeline down, the cleanup_buffer call that finds
\* bytes staged runs while the log writer is open, and the staged bytes are
\* in the log file when the call has released the buffer's storage.
C40_ShutdownFlush ==
    [][(/\ main_pc = "cleanup_buffer"
        /\ main_pc' = "cleanup_hooks"
        /\ buffer.initialized
        /\ buffer.size > 0)
       => /\ logger.initialized
          /\ logger.file_handle = "OPEN"
          /\ ~buffer'.initialized
          /\ file_bytes' >= file_bytes + buffer.size]_vars

=============================================================================
